---- MODULE Spec2Model ----
(***************************************************************************)
(* Kolyre (src/kolyre/core.py): ANSI escape code generation and            *)
(* composition.  Python values are tagged records [t, v]; a Python str is  *)
(* carried as the sequence of its characters, so that concatenation,       *)
(* slicing, stripping and number formatting are computed, not assumed.     *)
(***************************************************************************)
EXTENDS Integers, Sequences, FiniteSets, TLC

VARIABLES
    FORCE_COLOR,  \* Kolyre.FORCE_COLOR, the process-wide force flag
    isatty,       \* what sys.stdout.isatty() answers at this moment
    request,      \* the call the client program makes (operation and arguments)
    result,       \* outcome of the last completed call (return value or exception)
    at,           \* FORCE_COLOR and isatty() as they were when that call was made
    normalized,   \* foreground_rgb/background_rgb: outcome of the _normalize_rgb call
    queries,      \* colorize: number of sys.stdout.isatty() calls the last call made
    stdout,       \* what has been written to sys.stdout, in order
    console,      \* enable_ansi_support: position, console API calls made, console mode
    demo,         \* demo.main: position, args, ansi_supported, exit status, what was rendered
    thread,       \* colorize run statement by statement beside a thread assigning FORCE_COLOR
    stack,        \* _flatten: the local list `stack`
    flattened,    \* _flatten: the local list `flattened`
    pops,         \* _flatten: number of stack.pop() executed so far
    pc            \* _flatten: position in the loop

vars == <<FORCE_COLOR, isatty, request, result, at, normalized, queries, stdout,
          console, demo, thread, stack, flattened, pops, pc>>

-----------------------------------------------------------------------------
(* Python values *)

PyStr(s) == [t |-> "str", v |-> s]
PyInt(n) == [t |-> "int", v |-> n]
PyBool(b) == [t |-> "bool", v |-> b]
PyFloat(s) == [t |-> "float", v |-> s]
PyList(xs) == [t |-> "list", v |-> xs]
PyTuple(xs) == [t |-> "tuple", v |-> xs]
PyNone == [t |-> "NoneType", v |-> <<>>]

\* isinstance(x, str)
IsStr(x) == x.t = "str"
\* isinstance(x, bool)
IsBool(x) == x.t = "bool"
\* isinstance(x, int): bool is a subclass of int
IsInt(x) == x.t \in {"int", "bool"}
\* isinstance(x, (list, tuple))
IsSeq(x) == x.t \in {"list", "tuple"}
\* the integer an int (or a bool, used as an int) stands for
IntVal(x) == IF x.t = "bool" THEN (IF x.v THEN 1 ELSE 0) ELSE x.v
\* outcomes of a call
Return(x) == [kind |-> "return", value |-> x]
Raise(e, m) == [kind |-> "raise", exc |-> e, msg |-> m]
NoResult == [kind |-> "none"]

DecimalDigits == <<"0", "1", "2", "3", "4", "5", "6", "7", "8", "9">>

\* str(n) for an int n, as f"{n}" formats it
RECURSIVE NatStr(_)
NatStr(n) ==
    IF n < 10 THEN <<DecimalDigits[n + 1]>>
    ELSE NatStr(n \div 10) \o <<DecimalDigits[(n % 10) + 1]>>
IntStr(n) == IF n < 0 THEN <<"-">> \o NatStr(-n) ELSE NatStr(n)

-----------------------------------------------------------------------------
(* Code registry (the constants the model uses) *)

\* the control character "\033"
ESC == "ESC"

BOLD == <<ESC, "[", "1", "m">>
RESET == <<ESC, "[", "0", "m">>
RED == <<ESC, "[", "3", "1", "m">>
GREEN == <<ESC, "[", "3", "2", "m">>
BG_BLUE == <<ESC, "[", "4", "4", "m">>

-----------------------------------------------------------------------------
(* Kolyre._flatten *)

RECURSIVE Reversed(_)
Reversed(s) == IF Len(s) = 0 THEN <<>> ELSE Append(Reversed(Tail(s)), Head(s))

\* FlattenStep with stack.extend(current) in place of stack.extend(reversed(current))
FlattenStep_NoReverse(stk, flat) ==
    LET current == stk[Len(stk)]
        rest == SubSeq(stk, 1, Len(stk) - 1)
    IN  IF IsStr(current)
          THEN [stack |-> rest, flattened |-> Append(flat, current.v), raised |-> FALSE]
        ELSE IF IsSeq(current)
          THEN [stack |-> rest \o current.v, flattened |-> flat, raised |-> FALSE]
        ELSE [stack |-> rest, flattened |-> flat, raised |-> TRUE]

\* FlattenStep with stack.pop(0) in place of stack.pop()
FlattenStep_PopFront(stk, flat) ==
    LET current == stk[1]
        rest == Tail(stk)
    IN  IF IsStr(current)
          THEN [stack |-> rest, flattened |-> Append(flat, current.v), raised |-> FALSE]
        ELSE IF IsSeq(current)
          THEN [stack |-> rest \o Reversed(current.v), flattened |-> flat, raised |-> FALSE]
        ELSE [stack |-> rest, flattened |-> flat, raised |-> TRUE]

\* FlattenStep that reads a list or tuple of three integers as an (r, g, b)
\* color and puts its truecolor code among the codes
FlattenStep_RgbShorthand(stk, flat) ==
    LET current == stk[Len(stk)]
        rest == SubSeq(stk, 1, Len(stk) - 1)
    IN  IF IsStr(current)
          THEN [stack |-> rest, flattened |-> Append(flat, current.v), raised |-> FALSE]
        ELSE IF /\ IsSeq(current) /\ Len(current.v) = 3
                /\ \A i \in 1..3 : current.v[i].t = "int"
          THEN [stack |-> rest,
                flattened |-> Append(flat, <<ESC, "[", "3", "8", ";", "2", ";">>
                                           \o IntStr(current.v[1].v) \o <<";">>
                                           \o IntStr(current.v[2].v) \o <<";">>
                                           \o IntStr(current.v[3].v) \o <<"m">>),
                raised |-> FALSE]
        ELSE IF IsSeq(current)
          THEN [stack |-> rest \o Reversed(current.v), flattened |-> flat, raised |-> FALSE]
        ELSE [stack |-> rest, flattened |-> flat, raised |-> TRUE]

\* one iteration of `while stack:` : pop, then append / extend / raise
FlattenStep(stk, flat) ==
    LET current == stk[Len(stk)]
        rest == SubSeq(stk, 1, Len(stk) - 1)
    IN  IF IsStr(current)
          THEN [stack |-> rest, flattened |-> Append(flat, current.v), raised |-> FALSE]
        ELSE IF IsSeq(current)
          THEN [stack |-> rest \o Reversed(current.v), flattened |-> flat, raised |-> FALSE]
        ELSE [stack |-> rest, flattened |-> flat, raised |-> TRUE]

FlattenTypeError ==
    Raise("TypeError", "ANSI code must be a string, list, or tuple of strings")

RECURSIVE FlattenLoop(_, _)
FlattenLoop(stk, flat) ==
    IF Len(stk) = 0 THEN Return(flat)
    ELSE LET s == FlattenStep(stk, flat)
         IN  IF s.raised THEN FlattenTypeError
             ELSE FlattenLoop(s.stack, s.flattened)

_flatten(item) == FlattenLoop(<<item>>, <<>>)

-----------------------------------------------------------------------------
(* Kolyre.colorize *)

\* "".join(codes)
RECURSIVE Join(_)
Join(ss) == IF Len(ss) = 0 THEN <<>> ELSE Head(ss) \o Join(Tail(ss))

\* for code in ansi_codes: codes.extend(Kolyre._flatten(code))
RECURSIVE ExtendAll(_, _)
ExtendAll(ansi_codes, codes) ==
    IF Len(ansi_codes) = 0 THEN Return(codes)
    ELSE LET f == _flatten(Head(ansi_codes))
         IN  IF f.kind = "raise" THEN f
             ELSE ExtendAll(Tail(ansi_codes), codes \o f.value)

\* EffectiveForce that never looks at the force argument
EffectiveForce_FlagOnly(force, flag) == flag

\* force if force is not None else Kolyre.FORCE_COLOR
EffectiveForce(force, flag) ==
    LET \* truth value of a bool or an int
        Truthy(x) == IF x.t = "bool" THEN x.v ELSE x.v # 0
    IN  IF force.t # "NoneType" THEN Truthy(force) ELSE flag

\* PlainDecision without the isatty() test
PlainDecision_NoTty(force, flag, tty) == ~EffectiveForce(force, flag)

\* the condition of the `return text` at core.py:282-286
PlainDecision(force, flag, tty) == ~EffectiveForce(force, flag) /\ ~tty

\* colorize without `if not ansi_codes: return text`
colorize_NoEarlyReturn(text, ansi_codes, force, flag, tty) ==
    IF ~IsStr(text) THEN Raise("TypeError", "text must be a string")
    ELSE LET codes == ExtendAll(ansi_codes, <<>>)
         IN  IF codes.kind = "raise" THEN codes
             ELSE IF PlainDecision(force, flag, tty) THEN Return(text)
             ELSE Return(PyStr(Join(codes.value) \o text.v \o RESET))

\* colorize that takes the capability decision before it flattens the codes
colorize_DecideFirst(text, ansi_codes, force, flag, tty) ==
    IF ~IsStr(text) THEN Raise("TypeError", "text must be a string")
    ELSE IF Len(ansi_codes) = 0 THEN Return(text)
    ELSE IF PlainDecision(force, flag, tty) THEN Return(text)
    ELSE LET codes == ExtendAll(ansi_codes, <<>>)
         IN  IF codes.kind = "raise" THEN codes
             ELSE Return(PyStr(Join(codes.value) \o text.v \o RESET))

\* colorize whose early return tests the flattened codes, not the arguments:
\* `if not codes: return text` after the flattening
colorize_EmptyCodesPlain(text, ansi_codes, force, flag, tty) ==
    IF ~IsStr(text) THEN Raise("TypeError", "text must be a string")
    ELSE LET codes == ExtendAll(ansi_codes, <<>>)
         IN  IF codes.kind = "raise" THEN codes
             ELSE IF Len(codes.value) = 0 THEN Return(text)
             ELSE IF PlainDecision(force, flag, tty) THEN Return(text)
             ELSE Return(PyStr(Join(codes.value) \o text.v \o RESET))

colorize(text, ansi_codes, force, flag, tty) ==
    IF ~IsStr(text) THEN Raise("TypeError", "text must be a string")
    ELSE IF Len(ansi_codes) = 0 THEN Return(text)
    ELSE LET codes == ExtendAll(ansi_codes, <<>>)
         IN  IF codes.kind = "raise" THEN codes
             ELSE IF PlainDecision(force, flag, tty) THEN Return(text)
             ELSE Return(PyStr(Join(codes.value) \o text.v \o RESET))

\* IsattyCalls for the operands in the other order:
\* `not sys.stdout.isatty() and not (...)`
IsattyCalls_TtyFirst(text, ansi_codes, force, flag) ==
    IF ~IsStr(text) THEN 0
    ELSE IF Len(ansi_codes) = 0 THEN 0
    ELSE IF ExtendAll(ansi_codes, <<>>).kind = "raise" THEN 0
    ELSE 1

\* how often colorize evaluates sys.stdout.isatty(): the right operand of
\* `not (...) and not sys.stdout.isatty()`, reached only past the early exits
\* and the flattening, and only when the left operand is true
IsattyCalls(text, ansi_codes, force, flag) ==
    IF ~IsStr(text) THEN 0
    ELSE IF Len(ansi_codes) = 0 THEN 0
    ELSE IF ExtendAll(ansi_codes, <<>>).kind = "raise" THEN 0
    ELSE IF EffectiveForce(force, flag) THEN 0
    ELSE 1

-----------------------------------------------------------------------------
(* Python built-ins the color functions rely on *)

\* A character is a one-character string; a character outside printable ASCII
\* that TLA+ has no escape for is written by its code point, "U+000B".

\* the characters str.strip() removes, those with c.isspace()
Whitespace ==
    {"\t", "\n", "U+000B", "\f", "\r", "U+001C", "U+001D", "U+001E", "U+001F", " ",
     "U+0085", "U+00A0", "U+1680", "U+2000", "U+2001", "U+2002", "U+2003", "U+2004", "U+2005", "U+2006",
     "U+2007", "U+2008", "U+2009", "U+200A", "U+2028", "U+2029", "U+202F", "U+205F", "U+3000"}

\* s.strip()
RECURSIVE LStrip(_), RStrip(_)
LStrip(s) == IF Len(s) > 0 /\ s[1] \in Whitespace THEN LStrip(Tail(s)) ELSE s
RStrip(s) ==
    IF Len(s) > 0 /\ s[Len(s)] \in Whitespace THEN RStrip(SubSeq(s, 1, Len(s) - 1)) ELSE s
Strip(s) == RStrip(LStrip(s))

\* s.lstrip("#"): every leading '#' goes
RECURSIVE LStripHash(_)
LStripHash(s) == IF Len(s) > 0 /\ s[1] = "#" THEN LStripHash(Tail(s)) ELSE s

\* DoubleEach as hex_str * 2: the string repeated, not each character
DoubleEach_WholeString(s) == s \o s

\* "".join([c * 2 for c in hex_str])
RECURSIVE DoubleEach(_)
DoubleEach(s) == IF Len(s) = 0 THEN <<>> ELSE <<Head(s), Head(s)>> \o DoubleEach(Tail(s))

\* s[i:j] for 0 <= i <= j
Slice(s, i, j) == SubSeq(s, i + 1, IF j > Len(s) THEN Len(s) ELSE j)

LowerHexDigits ==
    <<"0", "1", "2", "3", "4", "5", "6", "7", "8", "9", "a", "b", "c", "d", "e", "f">>
UpperHexLetters == <<"A", "B", "C", "D", "E", "F">>

\* the decimal digits of Unicode outside ASCII, each run from zero to nine:
\* int() reads every one of them as the ASCII digit of the same value
UnicodeDecimalDigits ==
    {<<"U+0660", "U+0661", "U+0662", "U+0663", "U+0664", "U+0665", "U+0666", "U+0667", "U+0668", "U+0669">>,
     <<"U+06F0", "U+06F1", "U+06F2", "U+06F3", "U+06F4", "U+06F5", "U+06F6", "U+06F7", "U+06F8", "U+06F9">>,
     <<"U+07C0", "U+07C1", "U+07C2", "U+07C3", "U+07C4", "U+07C5", "U+07C6", "U+07C7", "U+07C8", "U+07C9">>,
     <<"U+0966", "U+0967", "U+0968", "U+0969", "U+096A", "U+096B", "U+096C", "U+096D", "U+096E", "U+096F">>,
     <<"U+09E6", "U+09E7", "U+09E8", "U+09E9", "U+09EA", "U+09EB", "U+09EC", "U+09ED", "U+09EE", "U+09EF">>,
     <<"U+0A66", "U+0A67", "U+0A68", "U+0A69", "U+0A6A", "U+0A6B", "U+0A6C", "U+0A6D", "U+0A6E", "U+0A6F">>,
     <<"U+0AE6", "U+0AE7", "U+0AE8", "U+0AE9", "U+0AEA", "U+0AEB", "U+0AEC", "U+0AED", "U+0AEE", "U+0AEF">>,
     <<"U+0B66", "U+0B67", "U+0B68", "U+0B69", "U+0B6A", "U+0B6B", "U+0B6C", "U+0B6D", "U+0B6E", "U+0B6F">>,
     <<"U+0BE6", "U+0BE7", "U+0BE8", "U+0BE9", "U+0BEA", "U+0BEB", "U+0BEC", "U+0BED", "U+0BEE", "U+0BEF">>,
     <<"U+0C66", "U+0C67", "U+0C68", "U+0C69", "U+0C6A", "U+0C6B", "U+0C6C", "U+0C6D", "U+0C6E", "U+0C6F">>,
     <<"U+0CE6", "U+0CE7", "U+0CE8", "U+0CE9", "U+0CEA", "U+0CEB", "U+0CEC", "U+0CED", "U+0CEE", "U+0CEF">>,
     <<"U+0D66", "U+0D67", "U+0D68", "U+0D69", "U+0D6A", "U+0D6B", "U+0D6C", "U+0D6D", "U+0D6E", "U+0D6F">>,
     <<"U+0DE6", "U+0DE7", "U+0DE8", "U+0DE9", "U+0DEA", "U+0DEB", "U+0DEC", "U+0DED", "U+0DEE", "U+0DEF">>,
     <<"U+0E50", "U+0E51", "U+0E52", "U+0E53", "U+0E54", "U+0E55", "U+0E56", "U+0E57", "U+0E58", "U+0E59">>,
     <<"U+0ED0", "U+0ED1", "U+0ED2", "U+0ED3", "U+0ED4", "U+0ED5", "U+0ED6", "U+0ED7", "U+0ED8", "U+0ED9">>,
     <<"U+0F20", "U+0F21", "U+0F22", "U+0F23", "U+0F24", "U+0F25", "U+0F26", "U+0F27", "U+0F28", "U+0F29">>,
     <<"U+1040", "U+1041", "U+1042", "U+1043", "U+1044", "U+1045", "U+1046", "U+1047", "U+1048", "U+1049">>,
     <<"U+1090", "U+1091", "U+1092", "U+1093", "U+1094", "U+1095", "U+1096", "U+1097", "U+1098", "U+1099">>,
     <<"U+17E0", "U+17E1", "U+17E2", "U+17E3", "U+17E4", "U+17E5", "U+17E6", "U+17E7", "U+17E8", "U+17E9">>,
     <<"U+1810", "U+1811", "U+1812", "U+1813", "U+1814", "U+1815", "U+1816", "U+1817", "U+1818", "U+1819">>,
     <<"U+1946", "U+1947", "U+1948", "U+1949", "U+194A", "U+194B", "U+194C", "U+194D", "U+194E", "U+194F">>,
     <<"U+19D0", "U+19D1", "U+19D2", "U+19D3", "U+19D4", "U+19D5", "U+19D6", "U+19D7", "U+19D8", "U+19D9">>,
     <<"U+1A80", "U+1A81", "U+1A82", "U+1A83", "U+1A84", "U+1A85", "U+1A86", "U+1A87", "U+1A88", "U+1A89">>,
     <<"U+1A90", "U+1A91", "U+1A92", "U+1A93", "U+1A94", "U+1A95", "U+1A96", "U+1A97", "U+1A98", "U+1A99">>,
     <<"U+1B50", "U+1B51", "U+1B52", "U+1B53", "U+1B54", "U+1B55", "U+1B56", "U+1B57", "U+1B58", "U+1B59">>,
     <<"U+1BB0", "U+1BB1", "U+1BB2", "U+1BB3", "U+1BB4", "U+1BB5", "U+1BB6", "U+1BB7", "U+1BB8", "U+1BB9">>,
     <<"U+1C40", "U+1C41", "U+1C42", "U+1C43", "U+1C44", "U+1C45", "U+1C46", "U+1C47", "U+1C48", "U+1C49">>,
     <<"U+1C50", "U+1C51", "U+1C52", "U+1C53", "U+1C54", "U+1C55", "U+1C56", "U+1C57", "U+1C58", "U+1C59">>,
     <<"U+A620", "U+A621", "U+A622", "U+A623", "U+A624", "U+A625", "U+A626", "U+A627", "U+A628", "U+A629">>,
     <<"U+A8D0", "U+A8D1", "U+A8D2", "U+A8D3", "U+A8D4", "U+A8D5", "U+A8D6", "U+A8D7", "U+A8D8", "U+A8D9">>,
     <<"U+A900", "U+A901", "U+A902", "U+A903", "U+A904", "U+A905", "U+A906", "U+A907", "U+A908", "U+A909">>,
     <<"U+A9D0", "U+A9D1", "U+A9D2", "U+A9D3", "U+A9D4", "U+A9D5", "U+A9D6", "U+A9D7", "U+A9D8", "U+A9D9">>,
     <<"U+A9F0", "U+A9F1", "U+A9F2", "U+A9F3", "U+A9F4", "U+A9F5", "U+A9F6", "U+A9F7", "U+A9F8", "U+A9F9">>,
     <<"U+AA50", "U+AA51", "U+AA52", "U+AA53", "U+AA54", "U+AA55", "U+AA56", "U+AA57", "U+AA58", "U+AA59">>,
     <<"U+ABF0", "U+ABF1", "U+ABF2", "U+ABF3", "U+ABF4", "U+ABF5", "U+ABF6", "U+ABF7", "U+ABF8", "U+ABF9">>,
     <<"U+FF10", "U+FF11", "U+FF12", "U+FF13", "U+FF14", "U+FF15", "U+FF16", "U+FF17", "U+FF18", "U+FF19">>,
     <<"U+104A0", "U+104A1", "U+104A2", "U+104A3", "U+104A4", "U+104A5", "U+104A6", "U+104A7", "U+104A8", "U+104A9">>,
     <<"U+10D30", "U+10D31", "U+10D32", "U+10D33", "U+10D34", "U+10D35", "U+10D36", "U+10D37", "U+10D38", "U+10D39">>,
     <<"U+11066", "U+11067", "U+11068", "U+11069", "U+1106A", "U+1106B", "U+1106C", "U+1106D", "U+1106E", "U+1106F">>,
     <<"U+110F0", "U+110F1", "U+110F2", "U+110F3", "U+110F4", "U+110F5", "U+110F6", "U+110F7", "U+110F8", "U+110F9">>,
     <<"U+11136", "U+11137", "U+11138", "U+11139", "U+1113A", "U+1113B", "U+1113C", "U+1113D", "U+1113E", "U+1113F">>,
     <<"U+111D0", "U+111D1", "U+111D2", "U+111D3", "U+111D4", "U+111D5", "U+111D6", "U+111D7", "U+111D8", "U+111D9">>,
     <<"U+112F0", "U+112F1", "U+112F2", "U+112F3", "U+112F4", "U+112F5", "U+112F6", "U+112F7", "U+112F8", "U+112F9">>,
     <<"U+11450", "U+11451", "U+11452", "U+11453", "U+11454", "U+11455", "U+11456", "U+11457", "U+11458", "U+11459">>,
     <<"U+114D0", "U+114D1", "U+114D2", "U+114D3", "U+114D4", "U+114D5", "U+114D6", "U+114D7", "U+114D8", "U+114D9">>,
     <<"U+11650", "U+11651", "U+11652", "U+11653", "U+11654", "U+11655", "U+11656", "U+11657", "U+11658", "U+11659">>,
     <<"U+116C0", "U+116C1", "U+116C2", "U+116C3", "U+116C4", "U+116C5", "U+116C6", "U+116C7", "U+116C8", "U+116C9">>,
     <<"U+11730", "U+11731", "U+11732", "U+11733", "U+11734", "U+11735", "U+11736", "U+11737", "U+11738", "U+11739">>,
     <<"U+118E0", "U+118E1", "U+118E2", "U+118E3", "U+118E4", "U+118E5", "U+118E6", "U+118E7", "U+118E8", "U+118E9">>,
     <<"U+11950", "U+11951", "U+11952", "U+11953", "U+11954", "U+11955", "U+11956", "U+11957", "U+11958", "U+11959">>,
     <<"U+11C50", "U+11C51", "U+11C52", "U+11C53", "U+11C54", "U+11C55", "U+11C56", "U+11C57", "U+11C58", "U+11C59">>,
     <<"U+11D50", "U+11D51", "U+11D52", "U+11D53", "U+11D54", "U+11D55", "U+11D56", "U+11D57", "U+11D58", "U+11D59">>,
     <<"U+11DA0", "U+11DA1", "U+11DA2", "U+11DA3", "U+11DA4", "U+11DA5", "U+11DA6", "U+11DA7", "U+11DA8", "U+11DA9">>,
     <<"U+16A60", "U+16A61", "U+16A62", "U+16A63", "U+16A64", "U+16A65", "U+16A66", "U+16A67", "U+16A68", "U+16A69">>,
     <<"U+16AC0", "U+16AC1", "U+16AC2", "U+16AC3", "U+16AC4", "U+16AC5", "U+16AC6", "U+16AC7", "U+16AC8", "U+16AC9">>,
     <<"U+16B50", "U+16B51", "U+16B52", "U+16B53", "U+16B54", "U+16B55", "U+16B56", "U+16B57", "U+16B58", "U+16B59">>,
     <<"U+1D7CE", "U+1D7CF", "U+1D7D0", "U+1D7D1", "U+1D7D2", "U+1D7D3", "U+1D7D4", "U+1D7D5", "U+1D7D6", "U+1D7D7">>,
     <<"U+1D7D8", "U+1D7D9", "U+1D7DA", "U+1D7DB", "U+1D7DC", "U+1D7DD", "U+1D7DE", "U+1D7DF", "U+1D7E0", "U+1D7E1">>,
     <<"U+1D7E2", "U+1D7E3", "U+1D7E4", "U+1D7E5", "U+1D7E6", "U+1D7E7", "U+1D7E8", "U+1D7E9", "U+1D7EA", "U+1D7EB">>,
     <<"U+1D7EC", "U+1D7ED", "U+1D7EE", "U+1D7EF", "U+1D7F0", "U+1D7F1", "U+1D7F2", "U+1D7F3", "U+1D7F4", "U+1D7F5">>,
     <<"U+1D7F6", "U+1D7F7", "U+1D7F8", "U+1D7F9", "U+1D7FA", "U+1D7FB", "U+1D7FC", "U+1D7FD", "U+1D7FE", "U+1D7FF">>,
     <<"U+1E140", "U+1E141", "U+1E142", "U+1E143", "U+1E144", "U+1E145", "U+1E146", "U+1E147", "U+1E148", "U+1E149">>,
     <<"U+1E2F0", "U+1E2F1", "U+1E2F2", "U+1E2F3", "U+1E2F4", "U+1E2F5", "U+1E2F6", "U+1E2F7", "U+1E2F8", "U+1E2F9">>,
     <<"U+1E950", "U+1E951", "U+1E952", "U+1E953", "U+1E954", "U+1E955", "U+1E956", "U+1E957", "U+1E958", "U+1E959">>,
     <<"U+1FBF0", "U+1FBF1", "U+1FBF2", "U+1FBF3", "U+1FBF4", "U+1FBF5", "U+1FBF6", "U+1FBF7", "U+1FBF8", "U+1FBF9">>}

\* a digit of int(s, 16): an ASCII hex digit in either case, or a decimal
\* digit of Unicode
IsBase16Digit(c) ==
    \/ \E i \in 1..Len(LowerHexDigits) : LowerHexDigits[i] = c
    \/ \E i \in 1..Len(UpperHexLetters) : UpperHexLetters[i] = c
    \/ \E run \in UnicodeDecimalDigits : \E i \in 1..Len(run) : run[i] = c
\* its value
Base16Digit(c) ==
    CHOOSE v \in 0..15 :
        \/ LowerHexDigits[v + 1] = c
        \/ v >= 10 /\ UpperHexLetters[v - 9] = c
        \/ v <= 9 /\ \E run \in UnicodeDecimalDigits : run[v + 1] = c

\* the digit part of an int() literal: digits, single underscores between them
DigitsWellFormed(w) ==
    /\ Len(w) > 0
    /\ \A i \in 1..Len(w) :
          \/ IsBase16Digit(w[i])
          \/ w[i] = "_" /\ 1 < i /\ i < Len(w) /\ w[i + 1] # "_"

RECURSIVE DigitsValue(_, _)
DigitsValue(w, acc) ==
    IF Len(w) = 0 THEN acc
    ELSE IF Head(w) = "_" THEN DigitsValue(Tail(w), acc)
    ELSE DigitsValue(Tail(w), 16 * acc + Base16Digit(Head(w)))

\* int(s, 16): surrounding whitespace, a sign, a 0x prefix and underscores
\* between digits are all accepted; ok is FALSE where int() raises ValueError.
\* int() skips the whitespace of str.strip() but for the four separators
\* U+001C to U+001F, and reads a Unicode zero before x as the prefix too.
IntBase16(s) ==
    LET Skipped(c) == c \in Whitespace \ {"U+001C", "U+001D", "U+001E", "U+001F"}
        Digits(w, negative) ==
            IF DigitsWellFormed(w)
              THEN [ok |-> TRUE, v |-> (IF negative THEN -1 ELSE 1) * DigitsValue(w, 0)]
              ELSE [ok |-> FALSE, v |-> 0]
        Unsigned(u, negative) ==
            Digits(IF /\ Len(u) >= 2
                      /\ u[1] = "0" \/ \E run \in UnicodeDecimalDigits : run[1] = u[1]
                      /\ u[2] \in {"x", "X"}
                     THEN SubSeq(u, IF Len(u) >= 3 /\ u[3] = "_" THEN 4 ELSE 3, Len(u))
                     ELSE u,
                   negative)
        Signed(t) ==
            Unsigned(IF Len(t) > 0 /\ t[1] \in {"+", "-"} THEN Tail(t) ELSE t,
                     Len(t) > 0 /\ t[1] = "-")
    IN  Signed(SubSeq(s,
                      CHOOSE i \in 1..(Len(s) + 1) :
                          /\ i > Len(s) \/ ~Skipped(s[i])
                          /\ \A j \in 1..(i - 1) : Skipped(s[j]),
                      CHOOSE i \in 0..Len(s) :
                          /\ i = 0 \/ ~Skipped(s[i])
                          /\ \A j \in (i + 1)..Len(s) : Skipped(s[j])))

-----------------------------------------------------------------------------
(* Kolyre._validate_256, foreground_256, background_256 *)

\* _validate_256 with the range test `0 <= color_index <= 256`
_validate_256_OffByOne(color_index) ==
    IF IsBool(color_index)
      THEN Raise("TypeError", "color_index cannot be a boolean")
    ELSE IF ~IsInt(color_index)
      THEN Raise("TypeError", "color_index must be an integer")
    ELSE IF ~(0 <= IntVal(color_index) /\ IntVal(color_index) <= 256)
      THEN Raise("ValueError", "color_index must be between 0 and 255")
    ELSE Return(color_index)

_validate_256(color_index) ==
    IF IsBool(color_index)
      THEN Raise("TypeError", "color_index cannot be a boolean")
    ELSE IF ~IsInt(color_index)
      THEN Raise("TypeError", "color_index must be an integer")
    ELSE IF ~(0 <= IntVal(color_index) /\ IntVal(color_index) <= 255)
      THEN Raise("ValueError", "color_index must be between 0 and 255")
    ELSE Return(color_index)

foreground_256(color_index) ==
    LET validated_index == _validate_256(color_index)
    IN  IF validated_index.kind = "raise" THEN validated_index
        ELSE Return(PyStr(<<ESC, "[", "3", "8", ";", "5", ";">>
                          \o IntStr(IntVal(validated_index.value)) \o <<"m">>))

background_256(color_index) ==
    LET validated_index == _validate_256(color_index)
    IN  IF validated_index.kind = "raise" THEN validated_index
        ELSE Return(PyStr(<<ESC, "[", "4", "8", ";", "5", ";">>
                          \o IntStr(IntVal(validated_index.value)) \o <<"m">>))

-----------------------------------------------------------------------------
(* Kolyre._normalize_rgb, foreground_rgb, background_rgb *)

\* ValidateComponent without the range test
ValidateComponent_NoRangeCheck(name, value) ==
    IF IsBool(value) THEN Raise("TypeError", name \o " cannot be a boolean")
    ELSE IF ~IsInt(value) THEN Raise("TypeError", name \o " must be an integer")
    ELSE NoResult

\* ValidateComponent without the isinstance(value, bool) test
ValidateComponent_NoBoolCheck(name, value) ==
    IF ~IsInt(value) THEN Raise("TypeError", name \o " must be an integer")
    ELSE IF ~(0 <= IntVal(value) /\ IntVal(value) <= 255)
      THEN Raise("ValueError", name \o " must be between 0 and 255")
    ELSE NoResult

\* one turn of the loop over (red, green, blue): the error it raises, if any
ValidateComponent(name, value) ==
    IF IsBool(value) THEN Raise("TypeError", name \o " cannot be a boolean")
    ELSE IF ~IsInt(value) THEN Raise("TypeError", name \o " must be an integer")
    ELSE IF ~(0 <= IntVal(value) /\ IntVal(value) <= 255)
      THEN Raise("ValueError", name \o " must be between 0 and 255")
    ELSE NoResult

\* ValidateComponents that reports the last failing component, not the first
ValidateComponents_LastFailure(red, green, blue) ==
    LET r == ValidateComponent("red", red)
        g == ValidateComponent("green", green)
        b == ValidateComponent("blue", blue)
    IN  IF b.kind = "raise" THEN b
        ELSE IF g.kind = "raise" THEN g
        ELSE IF r.kind = "raise" THEN r
        ELSE Return(PyTuple(<<red, green, blue>>))

\* for name, value in zip(("red", "green", "blue"), (red, green, blue)): ...
\* return red, green, blue
ValidateComponents(red, green, blue) ==
    LET r == ValidateComponent("red", red)
        g == ValidateComponent("green", green)
        b == ValidateComponent("blue", blue)
    IN  IF r.kind = "raise" THEN r
        ELSE IF g.kind = "raise" THEN g
        ELSE IF b.kind = "raise" THEN b
        ELSE Return(PyTuple(<<red, green, blue>>))

\* the str branch, from the stripped string on
NormalizeHex(hex_str0) ==
    LET hex_str == IF Len(hex_str0) = 3 THEN DoubleEach(hex_str0) ELSE hex_str0
        red == IntBase16(Slice(hex_str, 0, 2))
        green == IntBase16(Slice(hex_str, 2, 4))
        blue == IntBase16(Slice(hex_str, 4, 6))
    IN  IF Len(hex_str) # 6
          THEN Raise("ValueError", "Hex color must be 6 characters (RRGGBB)")
        ELSE IF ~(red.ok /\ green.ok /\ blue.ok)
          THEN Raise("ValueError", "Invalid hex color format")
        ELSE ValidateComponents(PyInt(red.v), PyInt(green.v), PyInt(blue.v))

\* _normalize_rgb that takes the separate-components path whenever green and
\* blue are both given
_normalize_rgb_GreenBlueDecide(rgb, green, blue) ==
    IF green # PyNone /\ blue # PyNone THEN ValidateComponents(rgb, green, blue)
    ELSE IF IsStr(rgb) THEN NormalizeHex(LStripHash(Strip(rgb.v)))
    ELSE IF IsSeq(rgb) THEN
        IF Len(rgb.v) # 3
          THEN Raise("ValueError", "RGB sequence must have exactly 3 values")
          ELSE ValidateComponents(rgb.v[1], rgb.v[2], rgb.v[3])
    ELSE IF IsInt(rgb) THEN
        Raise("ValueError",
              "When providing a single integer, green and blue must also be provided")
    ELSE Raise("TypeError", "Invalid RGB input")

\* _normalize_rgb that asks for green and blue only when both are missing
_normalize_rgb_BothAbsent(rgb, green, blue) ==
    IF IsStr(rgb) THEN NormalizeHex(LStripHash(Strip(rgb.v)))
    ELSE IF IsSeq(rgb) THEN
        IF Len(rgb.v) # 3
          THEN Raise("ValueError", "RGB sequence must have exactly 3 values")
          ELSE ValidateComponents(rgb.v[1], rgb.v[2], rgb.v[3])
    ELSE IF IsInt(rgb) THEN
        IF green = PyNone /\ blue = PyNone
          THEN Raise("ValueError",
                     "When providing a single integer, green and blue must also be provided")
          ELSE ValidateComponents(rgb, green, blue)
    ELSE Raise("TypeError", "Invalid RGB input")

\* _normalize_rgb that refuses green or blue next to a string, a list or a tuple
_normalize_rgb_RejectsMixedForms(rgb, green, blue) ==
    IF (IsStr(rgb) \/ IsSeq(rgb)) /\ (green # PyNone \/ blue # PyNone)
      THEN Raise("TypeError", "Invalid RGB input")
    ELSE IF IsStr(rgb) THEN NormalizeHex(LStripHash(Strip(rgb.v)))
    ELSE IF IsSeq(rgb) THEN
        IF Len(rgb.v) # 3
          THEN Raise("ValueError", "RGB sequence must have exactly 3 values")
          ELSE ValidateComponents(rgb.v[1], rgb.v[2], rgb.v[3])
    ELSE IF IsInt(rgb) THEN
        IF green = PyNone \/ blue = PyNone
          THEN Raise("ValueError",
                     "When providing a single integer, green and blue must also be provided")
          ELSE ValidateComponents(rgb, green, blue)
    ELSE Raise("TypeError", "Invalid RGB input")

_normalize_rgb(rgb, green, blue) ==
    IF IsStr(rgb) THEN NormalizeHex(LStripHash(Strip(rgb.v)))
    ELSE IF IsSeq(rgb) THEN
        IF Len(rgb.v) # 3
          THEN Raise("ValueError", "RGB sequence must have exactly 3 values")
          ELSE ValidateComponents(rgb.v[1], rgb.v[2], rgb.v[3])
    ELSE IF IsInt(rgb) THEN
        IF green = PyNone \/ blue = PyNone
          THEN Raise("ValueError",
                     "When providing a single integer, green and blue must also be provided")
          ELSE ValidateComponents(rgb, green, blue)
    ELSE Raise("TypeError", "Invalid RGB input")

\* f"\033[{selector};2;{red};{green};{blue}m"
TruecolorCode(selector, triple) ==
    PyStr(<<ESC, "[">> \o selector \o <<";", "2", ";">>
          \o IntStr(IntVal(triple.v[1])) \o <<";">>
          \o IntStr(IntVal(triple.v[2])) \o <<";">>
          \o IntStr(IntVal(triple.v[3])) \o <<"m">>)

foreground_rgb(rgb, green, blue) ==
    LET n == _normalize_rgb(rgb, green, blue)
    IN  IF n.kind = "raise" THEN n ELSE Return(TruecolorCode(<<"3", "8">>, n.value))

background_rgb(rgb, green, blue) ==
    LET n == _normalize_rgb(rgb, green, blue)
    IN  IF n.kind = "raise" THEN n ELSE Return(TruecolorCode(<<"4", "8">>, n.value))

-----------------------------------------------------------------------------
(* Inputs of colorize *)

\* largest number of nodes (strings and groups together) in the code groups of a call
MaxNodes == 3


RECURSIVE TreesOfSize(_), ForestsOfSize(_)
\* the nested structures with exactly n nodes
TreesOfSize(n) ==
    \* 42 is a leaf that is neither a string nor a collection
    \* (tests/test_colorize.py passes it)
    IF n = 1 THEN {PyStr(BOLD), PyStr(RED), PyInt(42), PyList(<<>>), PyTuple(<<>>)}
    ELSE {PyList(f) : f \in ForestsOfSize(n - 1)} \cup {PyTuple(f) : f \in ForestsOfSize(n - 1)}
\* the argument lists *ansi_codes with exactly n nodes in all
ForestsOfSize(n) ==
    IF n = 0 THEN {<<>>}
    ELSE UNION {{<<tr>> \o f : tr \in TreesOfSize(j), f \in ForestsOfSize(n - j)} : j \in 1..n}

\* the calls of the specification's example and of tests/test_colorize.py
ScenarioCodes == {
    <<PyList(<<PyStr(BOLD), PyList(<<PyStr(RED), PyStr(GREEN)>>)>>), PyStr(BG_BLUE)>>,
    <<PyTuple(<<PyStr(BOLD), PyList(<<PyStr(RED), PyTuple(<<PyStr(BG_BLUE)>>)>>)>>)>>,
    <<PyList(<<PyStr(RED)>>), PyList(<<PyStr(BOLD)>>)>>,
    <<PyTuple(<<PyInt(1), PyInt(2), PyInt(3)>>)>>,
    <<PyStr(BOLD), PyList(<<PyStr(RED), PyList(<<PyInt(255), PyInt(136), PyInt(0)>>)>>)>>,
    <<PyTuple(<<PyStr(BOLD), PyStr(RED), PyStr(BG_BLUE)>>)>>,
    <<PyStr(BOLD), PyList(<<PyStr(RED), PyList(<<PyStr(GREEN), PyInt(42)>>)>>)>> }

Texts == {PyStr(<<>>), PyStr(<<"x">>), PyInt(123)}

ColorizeRequests ==
    [op : {"colorize"}, text : Texts,
     ansi_codes : UNION {ForestsOfSize(n) : n \in 0..MaxNodes} \cup ScenarioCodes,
     force : {PyNone, PyBool(TRUE), PyBool(FALSE)}]

-----------------------------------------------------------------------------
(* The composer: colorize calls under a changing force flag and terminal *)

Idle == <<>>
NotCalled == [called |-> FALSE]
Called(flag, tty) == [called |-> TRUE, FORCE_COLOR |-> flag, isatty |-> tty]

Init ==
    /\ FORCE_COLOR = FALSE
    /\ isatty \in BOOLEAN
    /\ request \in ColorizeRequests
    /\ result = NoResult
    /\ at = NotCalled
    /\ normalized = NoResult
    /\ queries = 0
    /\ stdout = <<>>
    /\ console = Idle /\ demo = Idle /\ thread = Idle
    /\ stack = Idle /\ flattened = Idle /\ pops = 0 /\ pc = "idle"

\* the caller assigns Kolyre.FORCE_COLOR
SetForceColor(b) ==
    /\ FORCE_COLOR' = b
    /\ UNCHANGED <<isatty, request, result, at, normalized, stack, flattened, pops, pc, queries, stdout, console, demo, thread>>

\* stdout is attached to, or detached from, a terminal
SetIsatty(b) ==
    /\ isatty' = b
    /\ UNCHANGED <<FORCE_COLOR, request, result, at, normalized, stack, flattened, pops, pc, queries, stdout, console, demo, thread>>

\* Colorize that turns FORCE_COLOR on when it is called with force=True
Colorize_StickyForce ==
    /\ request.op = "colorize"
    /\ result' = colorize(request.text, request.ansi_codes, request.force,
                          FORCE_COLOR, isatty)
    /\ at' = Called(FORCE_COLOR, isatty)
    /\ queries' = IsattyCalls(request.text, request.ansi_codes, request.force, FORCE_COLOR)
    /\ FORCE_COLOR' = (FORCE_COLOR \/ request.force = PyBool(TRUE))
    /\ UNCHANGED <<isatty, request, normalized, stdout, stack, flattened, pops, pc, console, demo, thread>>

\* Colorize that keeps the FORCE_COLOR value its first call read
Colorize_CachedFlag ==
    /\ request.op = "colorize"
    /\ result' = colorize(request.text, request.ansi_codes, request.force,
                          IF at.called THEN at.FORCE_COLOR ELSE FORCE_COLOR, isatty)
    /\ at' = Called(FORCE_COLOR, isatty)
    /\ queries' = IsattyCalls(request.text, request.ansi_codes, request.force, FORCE_COLOR)
    /\ UNCHANGED <<FORCE_COLOR, isatty, request, normalized, stdout, stack, flattened, pops, pc, console, demo, thread>>

\* Kolyre.colorize(text, *ansi_codes, force=force)
Colorize ==
    /\ request.op = "colorize"
    /\ result' = colorize(request.text, request.ansi_codes, request.force,
                          FORCE_COLOR, isatty)
    /\ at' = Called(FORCE_COLOR, isatty)
    /\ queries' = IsattyCalls(request.text, request.ansi_codes, request.force, FORCE_COLOR)
    /\ UNCHANGED <<FORCE_COLOR, isatty, request, normalized, stdout, stack, flattened, pops, pc, console, demo, thread>>

Next ==
    \/ \E b \in BOOLEAN : SetForceColor(b)
    \/ \E b \in BOOLEAN : SetIsatty(b)
    \/ Colorize

Spec == Init /\ [][Next]_vars

-----------------------------------------------------------------------------
(* The loop of _flatten, one iteration at a time *)

FlattenRequests ==
    [op : {"_flatten"},
     item : UNION {TreesOfSize(n) : n \in 1..MaxNodes}
            \cup UNION {{a[i] : i \in 1..Len(a)} : a \in ScenarioCodes}]

InitFlatten ==
    /\ FORCE_COLOR = FALSE
    /\ isatty = FALSE
    /\ request \in FlattenRequests
    /\ result = NoResult
    /\ at = NotCalled
    /\ normalized = NoResult
    /\ queries = 0
    /\ stdout = <<>>
    /\ console = Idle /\ demo = Idle /\ thread = Idle
    /\ stack = Idle /\ flattened = Idle /\ pops = 0 /\ pc = "idle"

\* flattened = []; stack = [item]
FlattenEnter ==
    /\ request.op = "_flatten"
    /\ pc = "idle"
    /\ stack' = <<request.item>>
    /\ flattened' = <<>>
    /\ pc' = "loop"
    /\ UNCHANGED <<FORCE_COLOR, isatty, request, result, at, normalized, pops, queries, stdout, console, demo, thread>>

\* `while stack:` holds: one iteration
FlattenIterate ==
    /\ pc = "loop"
    /\ Len(stack) > 0
    /\ LET s == FlattenStep(stack, flattened)
       IN  /\ stack' = s.stack
           /\ flattened' = s.flattened
           /\ pc' = IF s.raised THEN "raised" ELSE "loop"
           /\ result' = IF s.raised THEN FlattenTypeError ELSE result
    /\ pops' = pops + 1
    /\ UNCHANGED <<FORCE_COLOR, isatty, request, at, normalized, queries, stdout, console, demo, thread>>

\* `while stack:` fails: return flattened
FlattenReturn ==
    /\ pc = "loop"
    /\ Len(stack) = 0
    /\ result' = Return(flattened)
    /\ pc' = "done"
    /\ UNCHANGED <<FORCE_COLOR, isatty, request, at, normalized, stack, flattened, pops, queries, stdout, console, demo, thread>>

NextFlatten == FlattenEnter \/ FlattenIterate \/ FlattenReturn

\* the interpreter keeps running a loop that can run
SpecFlatten == InitFlatten /\ [][NextFlatten]_vars /\ WF_vars(NextFlatten)

-----------------------------------------------------------------------------
(* Inputs of the color functions *)

\* longest string enumerated over all of ShortChars
MaxStrLen == 3
\* most whitespace characters put before and after a hex string
MaxPad == 1
\* most '#' characters put in front of a hex string
MaxHashes == 2
\* longest string of hex digits and letters enumerated
MaxHexLen == 7
\* longest list or tuple passed as a color
MaxSeqLen == 4

RECURSIVE SeqsOfLen(_, _)
SeqsOfLen(S, n) ==
    IF n = 0 THEN {<<>>} ELSE {Append(q, c) : q \in SeqsOfLen(S, n - 1), c \in S}

RECURSIVE Repeat(_, _)
Repeat(c, n) == IF n = 0 THEN <<>> ELSE <<c>> \o Repeat(c, n - 1)

\* whitespace and '#' characters around a body: a space, a tab, a control
\* character or an ideographic space, the same character repeated
PaddedStrings ==
    LET PaddedBodies ==
            {<<"F", "8", "0">>, <<"F", "F", "8", "8", "0", "0">>, <<"F", "8">>,
             <<"F", "F", "8", "8", "0", "0", "1">>, <<"g", "8", "0">>, <<>>}
        pads == {Repeat(c, n) : c \in {" ", "\t", "U+001F", "U+3000"}, n \in 0..MaxPad}
    IN  {l \o Repeat("#", h) \o body \o r :
            l \in pads, h \in 0..MaxHashes, r \in pads, body \in PaddedBodies}

\* the strings of tests/test_color_modes.py
ScenarioStrings ==
    {<<"#", "F", "F", "8", "8", "0", "0">>, <<"0", "0", "A", "A", "B", "B">>,
     <<"1", "9", "A">>, <<"G", "G", "G", "G", "G", "G">>, <<"1", "2", "3", "4">>,
     <<"1", "2", "3", "4", "5">>, <<"F", "F", "0", "0", "G", "G">>,
     <<"+", "1", "+", "2", "+", "3">>}

\* the strings passed as a color
HexValues ==
    LET HexDigitSample == {"0", "1", "8", "9", "a", "f", "A", "F"}
        \* "U+0661" and "U+FF12" are the Arabic-Indic one and the full-width two,
        \* "U+001C" is whitespace to str.strip() and not to int()
        ShortChars == {"F", "a", "0", "g", "+", " ", "#", "_", "U+0661"}
        PairChars == {"F", "0", "+", "-", " ", "_", "g", "x", "\t", "U+001C", "U+FF12"}
        \* every hexadecimal digit, in both cases
        AllHexChars ==
            {LowerHexDigits[i] : i \in 1..Len(LowerHexDigits)}
            \cup {UpperHexLetters[i] : i \in 1..Len(UpperHexLetters)}
        \* abc, #abc, aabbcc and #aabbcc for hex digits a, b, c: all three from
        \* the sample, or any two hex digits d, e as ded
        ShorthandForms ==
            UNION {{q, <<"#">> \o q, DoubleEach(q), <<"#">> \o DoubleEach(q)} :
                      q \in SeqsOfLen(HexDigitSample, 3)
                            \cup {<<d, e, d>> : d \in AllHexChars, e \in AllHexChars}}
        ShortStrings == UNION {SeqsOfLen(ShortChars, n) : n \in 0..MaxStrLen}
        \* six characters: every pair of PairChars in one slot, beside a valid
        \* pair, a signed pair or an invalid pair in the other two
        FewPairs == {<<"F", "0">>, <<"+", "F">>, <<"g", "g">>}
        SixCharStrings ==
            UNION {{pr \o q1 \o q2, q1 \o pr \o q2, q1 \o q2 \o pr} :
                      pr \in SeqsOfLen(PairChars, 2), q1 \in FewPairs, q2 \in FewPairs}
        LongStrings == UNION {SeqsOfLen({"F", "g"}, n) : n \in 4..MaxHexLen}
    IN  {PyStr(h) : h \in ShorthandForms \cup ShortStrings \cup SixCharStrings
                          \cup PaddedStrings \cup LongStrings \cup ScenarioStrings}

Components ==
    {PyInt(-1), PyInt(0), PyInt(136), PyInt(255), PyInt(256), PyBool(TRUE), PyBool(FALSE),
     PyStr(<<"2">>), PyNone, PyFloat(<<"1", ".", "5">>)}
\* the calls of foreground_rgb and background_rgb
RgbRequests ==
    LET FewComponents == {PyInt(0), PyInt(256), PyBool(TRUE)}
        items == SeqsOfLen(Components, 3)
                 \cup UNION {SeqsOfLen(FewComponents, n) : n \in (0..MaxSeqLen) \ {3}}
        SeqValues == {PyList(q) : q \in items} \cup {PyTuple(q) : q \in items}
        \* first arguments that are neither a str nor a list/tuple
        ScalarValues ==
            (Components \ {PyStr(<<"2">>)})
            \cup {[t |-> "dict", v |-> <<>>], [t |-> "bytes", v |-> <<"F", "8", "0">>]}
        \* green and blue passed along with a string, a list or a tuple
        UnusedGreenBlue == {<<PyNone, PyNone>>, <<PyBool(TRUE), PyInt(256)>>}
    IN
    {[op |-> o, rgb |-> x, green |-> gb[1], blue |-> gb[2]] :
        o \in {"foreground_rgb", "background_rgb"},
        x \in HexValues \cup SeqValues, gb \in UnusedGreenBlue}
    \cup [op : {"foreground_rgb", "background_rgb"}, rgb : ScalarValues,
          green : Components, blue : Components]

\* the calls of foreground_256 and background_256
PaletteRequests ==
    [op : {"foreground_256", "background_256"},
     color_index : {PyInt(i) : i \in -1..256}
                   \cup {PyInt(-10), PyInt(999), PyBool(TRUE), PyBool(FALSE),
                         PyStr(<<"r", "e", "d">>), PyNone, PyFloat(<<"1", ".", "5">>)}]

-----------------------------------------------------------------------------
(* The color normalizer: one call of a 256-color or truecolor function *)

InitColor ==
    /\ FORCE_COLOR = FALSE
    /\ isatty = FALSE
    /\ request \in RgbRequests \cup PaletteRequests
    /\ result = NoResult
    /\ at = NotCalled
    /\ normalized = NoResult
    /\ queries = 0
    /\ stdout = <<>>
    /\ console = Idle /\ demo = Idle /\ thread = Idle
    /\ stack = Idle /\ flattened = Idle /\ pops = 0 /\ pc = "idle"

\* Kolyre.foreground_256(color_index)
Foreground256 ==
    /\ request.op = "foreground_256"
    /\ result' = foreground_256(request.color_index)
    /\ UNCHANGED <<FORCE_COLOR, isatty, request, at, normalized, stack, flattened, pops, pc, queries, stdout, console, demo, thread>>

\* Kolyre.background_256(color_index)
Background256 ==
    /\ request.op = "background_256"
    /\ result' = background_256(request.color_index)
    /\ UNCHANGED <<FORCE_COLOR, isatty, request, at, normalized, stack, flattened, pops, pc, queries, stdout, console, demo, thread>>

\* Kolyre.foreground_rgb(rgb, green, blue)
ForegroundRgb ==
    /\ request.op = "foreground_rgb"
    /\ normalized' = _normalize_rgb(request.rgb, request.green, request.blue)
    /\ result' = foreground_rgb(request.rgb, request.green, request.blue)
    /\ UNCHANGED <<FORCE_COLOR, isatty, request, at, stack, flattened, pops, pc, queries, stdout, console, demo, thread>>

\* Kolyre.background_rgb(rgb, green, blue)
BackgroundRgb ==
    /\ request.op = "background_rgb"
    /\ normalized' = _normalize_rgb(request.rgb, request.green, request.blue)
    /\ result' = background_rgb(request.rgb, request.green, request.blue)
    /\ UNCHANGED <<FORCE_COLOR, isatty, request, at, stack, flattened, pops, pc, queries, stdout, console, demo, thread>>

NextColor == Foreground256 \/ Background256 \/ ForegroundRgb \/ BackgroundRgb

SpecColor == InitColor /\ [][NextColor]_vars

-----------------------------------------------------------------------------
(* The core operations alone: every call a client can make, no assignment *)

\* the color calls are those on the strings of the tests and on padded
\* strings, and on every list, tuple and scalar
InitCore ==
    /\ FORCE_COLOR \in BOOLEAN
    /\ request \in ColorizeRequests \cup FlattenRequests \cup PaletteRequests
                   \cup {r \in RgbRequests :
                            r.rgb.t # "str" \/ r.rgb.v \in ScenarioStrings \cup PaddedStrings}
    /\ isatty \in (IF request.op = "colorize" THEN BOOLEAN ELSE {FALSE})
    /\ result = NoResult
    /\ at = NotCalled
    /\ normalized = NoResult
    /\ queries = 0
    /\ stdout = <<>>
    /\ console = Idle /\ demo = Idle /\ thread = Idle
    /\ stack = Idle /\ flattened = Idle /\ pops = 0 /\ pc = "idle"

NextCore ==
    \/ Colorize
    \/ FlattenEnter \/ FlattenIterate \/ FlattenReturn
    \/ Foreground256 \/ Background256 \/ ForegroundRgb \/ BackgroundRgb

SpecCore == InitCore /\ [][NextCore]_vars

-----------------------------------------------------------------------------
(* Kolyre.enable_ansi_support *)

\* std_output_handle
std_output_handle == -11
\* enable_virtual_terminal_processing, 0x0004
enable_virtual_terminal_processing == 4

\* the call has ended with this outcome
AnsiDone(c, outcome) == [c EXCEPT !.pc = "done", !.outcome = outcome]

\* the base class of the built-in exception classes the console API and the
\* import can raise; an except clause matches a class and all its subclasses
ExceptionBases ==
    [Exception |-> "BaseException",
     AttributeError |-> "Exception", ImportError |-> "Exception",
     LookupError |-> "Exception", OSError |-> "Exception",
     RuntimeError |-> "Exception", ValueError |-> "Exception",
     ModuleNotFoundError |-> "ImportError",
     BlockingIOError |-> "OSError", ChildProcessError |-> "OSError",
     ConnectionError |-> "OSError", FileExistsError |-> "OSError",
     FileNotFoundError |-> "OSError", InterruptedError |-> "OSError",
     IsADirectoryError |-> "OSError", NotADirectoryError |-> "OSError",
     PermissionError |-> "OSError", ProcessLookupError |-> "OSError",
     TimeoutError |-> "OSError",
     BrokenPipeError |-> "ConnectionError",
     ConnectionAbortedError |-> "ConnectionError",
     ConnectionRefusedError |-> "ConnectionError",
     ConnectionResetError |-> "ConnectionError"]

\* issubclass(exc, classes): what `except classes:` matches an exception by
RECURSIVE issubclass(_, _)
issubclass(exc, classes) ==
    \/ exc \in classes
    \/ exc \in DOMAIN ExceptionBases /\ issubclass(ExceptionBases[exc], classes)

\* an exception raised inside the second try block:
\* `except (AttributeError, OSError): return False`; any other one propagates
AnsiCaught(c, raised) ==
    IF issubclass(raised.exc, {"AttributeError", "OSError"})
      THEN AnsiDone(c, Return(PyBool(FALSE)))
      ELSE AnsiDone(c, raised)

\* ImportCtypes with the ImportError left uncaught
ImportCtypes_ErrorEscapes(env, c) ==
    IF env.ctypes # "ok" THEN AnsiDone(c, Raise(env.ctypes, "ctypes"))
    ELSE [c EXCEPT !.pc = "GetStdHandle"]

\* try: import ctypes / except ImportError: return False;
\* env.ctypes is "ok" or the class of the exception the import raises
ImportCtypes(env, c) ==
    IF env.ctypes = "ok" THEN [c EXCEPT !.pc = "GetStdHandle"]
    ELSE IF issubclass(env.ctypes, {"ImportError"}) THEN AnsiDone(c, Return(PyBool(FALSE)))
    ELSE AnsiDone(c, Raise(env.ctypes, "ctypes"))

\* handle = GetStdHandle(std_output_handle); if handle in (0, -1): return False
GetStdHandle(env, c) ==
    LET called == [c EXCEPT !.calls = Append(@, <<"GetStdHandle", std_output_handle>>)]
        answer == env.GetStdHandle
    IN  IF answer.kind = "raise" THEN AnsiCaught(called, answer)
        ELSE IF answer.value \in {0, -1} THEN AnsiDone(called, Return(PyBool(FALSE)))
        ELSE [called EXCEPT !.handle = answer.value, !.pc = "GetConsoleMode"]

\* GetConsoleMode without the test of what the call answered
GetConsoleMode_AnswerIgnored(env, c) ==
    LET called == [c EXCEPT !.calls = Append(@, <<"GetConsoleMode", c.handle>>)]
        answer == env.GetConsoleMode
    IN  IF answer.kind = "raise" THEN AnsiCaught(called, answer)
        ELSE [called EXCEPT !.mode_value = IF answer.value = 0 THEN 0 ELSE c.mode,
                            !.pc = "SetConsoleMode"]

\* mode = c_uint32(); if not GetConsoleMode(handle, byref(mode)): return False
GetConsoleMode(env, c) ==
    LET called == [c EXCEPT !.calls = Append(@, <<"GetConsoleMode", c.handle>>)]
        answer == env.GetConsoleMode
    IN  IF answer.kind = "raise" THEN AnsiCaught(called, answer)
        ELSE IF answer.value = 0 THEN AnsiDone(called, Return(PyBool(FALSE)))
        ELSE [called EXCEPT !.mode_value = c.mode, !.pc = "SetConsoleMode"]

\* return bool(SetConsoleMode(handle, mode.value | enable_virtual_terminal_processing))
SetConsoleMode(env, c) ==
    LET \* value | bit, for a bit that is a power of two
        BitOr(value, bit) == IF (value \div bit) % 2 = 1 THEN value ELSE value + bit
        wanted == BitOr(c.mode_value, enable_virtual_terminal_processing)
        called == [c EXCEPT !.calls = Append(@, <<"SetConsoleMode", c.handle, wanted>>)]
        answer == env.SetConsoleMode
    IN  IF answer.kind = "raise" THEN AnsiCaught(called, answer)
        ELSE IF answer.value = 0 THEN AnsiDone(called, Return(PyBool(FALSE)))
        ELSE AnsiDone([called EXCEPT !.mode = wanted], Return(PyBool(TRUE)))

\* the call as it starts: `if sys.platform != "win32": return True`
AnsiStart(env) ==
    LET c == [pc |-> "import", calls |-> <<>>, handle |-> 0, mode_value |-> 0,
              mode |-> env.mode, outcome |-> NoResult]
    IN  IF env.platform # "win32" THEN AnsiDone(c, Return(PyBool(TRUE))) ELSE c

RECURSIVE AnsiRun(_, _)
\* the statements of enable_ansi_support on win32 from position c.pc to the
\* end of the call; env says what the import and each console API call do
AnsiRun(env, c) ==
    IF c.pc = "done" THEN c
    ELSE AnsiRun(env, IF c.pc = "import" THEN ImportCtypes(env, c)
                      ELSE IF c.pc = "GetStdHandle" THEN GetStdHandle(env, c)
                      ELSE IF c.pc = "GetConsoleMode" THEN GetConsoleMode(env, c)
                      ELSE SetConsoleMode(env, c))

\* Kolyre.enable_ansi_support(), run to its end
enable_ansi_support(env) == AnsiRun(env, AnsiStart(env)).outcome

\* what the import and the console API can do
AnsiRequests ==
    LET ApiRaises == {Raise("OSError", "api"), Raise("AttributeError", "api"),
                      Raise("PermissionError", "api"), Raise("RuntimeError", "api")}
    IN
    [op : {"enable_ansi_support"},
     platform : {"win32", "linux", "darwin"},
     ctypes : {"ok", "ImportError", "ModuleNotFoundError"},
     GetStdHandle : {Return(0), Return(-1), Return(42)} \cup ApiRaises,
     GetConsoleMode : {Return(0), Return(1)} \cup ApiRaises,
     SetConsoleMode : {Return(0), Return(1)} \cup ApiRaises,
     mode : {0, 3, 7}]

InitAnsi ==
    /\ FORCE_COLOR = FALSE
    /\ isatty = FALSE
    /\ request \in AnsiRequests
    /\ result = NoResult
    /\ at = NotCalled
    /\ normalized = NoResult
    /\ queries = 0
    /\ stdout = <<>>
    /\ console = Idle /\ demo = Idle /\ thread = Idle
    /\ stack = Idle /\ flattened = Idle /\ pops = 0 /\ pc = "idle"

\* the result of the call, once it has ended
AnsiResult(c) == IF c.pc = "done" THEN c.outcome ELSE NoResult

\* Kolyre.enable_ansi_support() is called: the platform test
AnsiEnter ==
    /\ request.op = "enable_ansi_support"
    /\ console = Idle
    /\ console' = AnsiStart(request)
    /\ result' = AnsiResult(console')
    /\ UNCHANGED <<FORCE_COLOR, isatty, request, at, normalized, queries, stdout,
                   demo, thread, stack, flattened, pops, pc>>

\* import ctypes
AnsiImportCtypes ==
    /\ request.op = "enable_ansi_support"
    /\ console # Idle
    /\ console.pc = "import"
    /\ console' = ImportCtypes(request, console)
    /\ result' = AnsiResult(console')
    /\ UNCHANGED <<FORCE_COLOR, isatty, request, at, normalized, queries, stdout,
                   demo, thread, stack, flattened, pops, pc>>

\* ctypes.windll.kernel32.GetStdHandle(std_output_handle)
AnsiGetStdHandle ==
    /\ request.op = "enable_ansi_support"
    /\ console # Idle
    /\ console.pc = "GetStdHandle"
    /\ console' = GetStdHandle(request, console)
    /\ result' = AnsiResult(console')
    /\ UNCHANGED <<FORCE_COLOR, isatty, request, at, normalized, queries, stdout,
                   demo, thread, stack, flattened, pops, pc>>

\* ctypes.windll.kernel32.GetConsoleMode(handle, ctypes.byref(mode))
AnsiGetConsoleMode ==
    /\ request.op = "enable_ansi_support"
    /\ console # Idle
    /\ console.pc = "GetConsoleMode"
    /\ console' = GetConsoleMode(request, console)
    /\ result' = AnsiResult(console')
    /\ UNCHANGED <<FORCE_COLOR, isatty, request, at, normalized, queries, stdout,
                   demo, thread, stack, flattened, pops, pc>>

\* ctypes.windll.kernel32.SetConsoleMode(handle, mode.value | 0x0004)
AnsiSetConsoleMode ==
    /\ request.op = "enable_ansi_support"
    /\ console # Idle
    /\ console.pc = "SetConsoleMode"
    /\ console' = SetConsoleMode(request, console)
    /\ result' = AnsiResult(console')
    /\ UNCHANGED <<FORCE_COLOR, isatty, request, at, normalized, queries, stdout,
                   demo, thread, stack, flattened, pops, pc>>

NextAnsi ==
    \/ AnsiEnter
    \/ AnsiImportCtypes
    \/ AnsiGetStdHandle
    \/ AnsiGetConsoleMode
    \/ AnsiSetConsoleMode

SpecAnsi == InitAnsi /\ [][NextAnsi]_vars

-----------------------------------------------------------------------------
(* Kolyre.Style, Kolyre.Foreground, Kolyre.Background: the string literals *)

\* class Style
Style ==
    [BOLD |-> <<ESC, "[", "1", "m">>,
     DIM |-> <<ESC, "[", "2", "m">>,
     ITALIC |-> <<ESC, "[", "3", "m">>,
     UNDERLINE |-> <<ESC, "[", "4", "m">>,
     DOUBLE_UNDERLINE |-> <<ESC, "[", "2", "1", "m">>,
     REVERSED |-> <<ESC, "[", "7", "m">>,
     HIDDEN |-> <<ESC, "[", "8", "m">>,
     STRIKETHROUGH |-> <<ESC, "[", "9", "m">>,
     OVERLINE |-> <<ESC, "[", "5", "3", "m">>,
     RESET |-> <<ESC, "[", "0", "m">>,
     RESET_BOLD_DIM |-> <<ESC, "[", "2", "2", "m">>,
     RESET_ITALIC |-> <<ESC, "[", "2", "3", "m">>,
     RESET_UNDERLINE |-> <<ESC, "[", "2", "4", "m">>,
     RESET_REVERSED |-> <<ESC, "[", "2", "7", "m">>,
     RESET_HIDDEN |-> <<ESC, "[", "2", "8", "m">>,
     RESET_STRIKETHROUGH |-> <<ESC, "[", "2", "9", "m">>,
     RESET_OVERLINE |-> <<ESC, "[", "5", "5", "m">>,
     RESET_FOREGROUND |-> <<ESC, "[", "3", "9", "m">>,
     RESET_BACKGROUND |-> <<ESC, "[", "4", "9", "m">>]

\* class Foreground
Foreground ==
    [BLACK |-> <<ESC, "[", "3", "0", "m">>,
     RED |-> <<ESC, "[", "3", "1", "m">>,
     GREEN |-> <<ESC, "[", "3", "2", "m">>,
     YELLOW |-> <<ESC, "[", "3", "3", "m">>,
     BLUE |-> <<ESC, "[", "3", "4", "m">>,
     MAGENTA |-> <<ESC, "[", "3", "5", "m">>,
     CYAN |-> <<ESC, "[", "3", "6", "m">>,
     WHITE |-> <<ESC, "[", "3", "7", "m">>,
     BRIGHT_BLACK |-> <<ESC, "[", "9", "0", "m">>,
     BRIGHT_RED |-> <<ESC, "[", "9", "1", "m">>,
     BRIGHT_GREEN |-> <<ESC, "[", "9", "2", "m">>,
     BRIGHT_YELLOW |-> <<ESC, "[", "9", "3", "m">>,
     BRIGHT_BLUE |-> <<ESC, "[", "9", "4", "m">>,
     BRIGHT_MAGENTA |-> <<ESC, "[", "9", "5", "m">>,
     BRIGHT_CYAN |-> <<ESC, "[", "9", "6", "m">>,
     BRIGHT_WHITE |-> <<ESC, "[", "9", "7", "m">>]

\* class Background written as a copy of class Foreground, codes not renumbered
Background_NotRenumbered == Foreground

\* class Background
Background ==
    [BLACK |-> <<ESC, "[", "4", "0", "m">>,
     RED |-> <<ESC, "[", "4", "1", "m">>,
     GREEN |-> <<ESC, "[", "4", "2", "m">>,
     YELLOW |-> <<ESC, "[", "4", "3", "m">>,
     BLUE |-> <<ESC, "[", "4", "4", "m">>,
     MAGENTA |-> <<ESC, "[", "4", "5", "m">>,
     CYAN |-> <<ESC, "[", "4", "6", "m">>,
     WHITE |-> <<ESC, "[", "4", "7", "m">>,
     BRIGHT_BLACK |-> <<ESC, "[", "1", "0", "0", "m">>,
     BRIGHT_RED |-> <<ESC, "[", "1", "0", "1", "m">>,
     BRIGHT_GREEN |-> <<ESC, "[", "1", "0", "2", "m">>,
     BRIGHT_YELLOW |-> <<ESC, "[", "1", "0", "3", "m">>,
     BRIGHT_BLUE |-> <<ESC, "[", "1", "0", "4", "m">>,
     BRIGHT_MAGENTA |-> <<ESC, "[", "1", "0", "5", "m">>,
     BRIGHT_CYAN |-> <<ESC, "[", "1", "0", "6", "m">>,
     BRIGHT_WHITE |-> <<ESC, "[", "1", "0", "7", "m">>]

\* the three nested classes of Kolyre
Classes == [Style |-> Style, Foreground |-> Foreground, Background |-> Background]

\* getattr(Kolyre.<class>, name)
getattr(class, name) ==
    IF name \in DOMAIN Classes[class] THEN Return(PyStr(Classes[class][name]))
    ELSE Raise("AttributeError", name)

\* every constant name, asked of every class
RegistryRequests ==
    [op : {"getattr"}, class : DOMAIN Classes,
     name : UNION {DOMAIN Classes[c] : c \in DOMAIN Classes}]

InitRegistry ==
    /\ FORCE_COLOR = FALSE
    /\ isatty = FALSE
    /\ request \in RegistryRequests
    /\ result = NoResult
    /\ at = NotCalled
    /\ normalized = NoResult
    /\ queries = 0
    /\ stdout = <<>>
    /\ console = Idle /\ demo = Idle /\ thread = Idle
    /\ stack = Idle /\ flattened = Idle /\ pops = 0 /\ pc = "idle"

\* the client reads Kolyre.<class>.<name>
GetAttr ==
    /\ request.op = "getattr"
    /\ result = NoResult
    /\ result' = getattr(request.class, request.name)
    /\ UNCHANGED <<FORCE_COLOR, isatty, request, at, normalized, queries, stdout,
                   console, demo, thread, stack, flattened, pops, pc>>

NextRegistry == GetAttr

SpecRegistry == InitRegistry /\ [][NextRegistry]_vars

-----------------------------------------------------------------------------
(* Kolyre.colorize statement by statement, another thread assigning
   Kolyre.FORCE_COLOR between its statements *)

\* largest number of nodes in the code groups of a call made under a writer
MaxThreadNodes == 2

\* the calling thread stands before the call: no code collected, the flag not read
InitThread ==
    /\ FORCE_COLOR = FALSE
    /\ isatty \in BOOLEAN
    /\ request \in [op : {"colorize"}, text : Texts,
                    ansi_codes : UNION {ForestsOfSize(n) : n \in 0..MaxThreadNodes}
                                 \cup ScenarioCodes,
                    force : {PyNone, PyBool(TRUE), PyBool(FALSE)}]
    /\ result = NoResult
    /\ at = NotCalled
    /\ normalized = NoResult
    /\ queries = 0
    /\ stdout = <<>>
    /\ console = Idle /\ demo = Idle
    /\ thread = [pc |-> "idle", k |-> 0, codes |-> <<>>, reads |-> 0, held |-> {}]
    /\ stack = Idle /\ flattened = Idle /\ pops = 0 /\ pc = "idle"

\* the other thread: Kolyre.FORCE_COLOR = b; a value assigned while the call
\* is running is one the flag held during the call
AssignForceColor(b) ==
    /\ FORCE_COLOR' = b
    /\ thread' = IF thread.pc \in {"idle", "done"} THEN thread
                 ELSE [thread EXCEPT !.held = @ \cup {b}]
    /\ UNCHANGED <<isatty, request, result, at, normalized, queries, stdout,
                   console, demo, stack, flattened, pops, pc>>

\* the call begins: the isinstance test and `if not ansi_codes: return text`
ThreadCall ==
    /\ thread.pc = "idle"
    /\ IF ~IsStr(request.text) THEN
           /\ result' = Raise("TypeError", "text must be a string")
           /\ thread' = [thread EXCEPT !.pc = "done", !.held = {FORCE_COLOR}]
       ELSE IF Len(request.ansi_codes) = 0 THEN
           /\ result' = Return(request.text)
           /\ thread' = [thread EXCEPT !.pc = "done", !.held = {FORCE_COLOR}]
       ELSE
           /\ result' = result
           /\ thread' = [thread EXCEPT !.pc = "extend", !.k = 1, !.held = {FORCE_COLOR}]
    /\ UNCHANGED <<FORCE_COLOR, isatty, request, at, normalized, queries, stdout,
                   console, demo, stack, flattened, pops, pc>>

\* one iteration of `for code in ansi_codes: codes.extend(Kolyre._flatten(code))`
ThreadExtend ==
    /\ thread.pc = "extend"
    /\ LET f == _flatten(request.ansi_codes[thread.k])
       IN  IF f.kind = "raise" THEN
               /\ result' = f
               /\ thread' = [thread EXCEPT !.pc = "done"]
           ELSE
               /\ result' = result
               /\ thread' = [thread EXCEPT
                                !.codes = @ \o f.value,
                                !.k = @ + 1,
                                !.pc = IF thread.k = Len(request.ansi_codes)
                                         THEN "decide" ELSE "extend"]
    /\ UNCHANGED <<FORCE_COLOR, isatty, request, at, normalized, queries, stdout,
                   console, demo, stack, flattened, pops, pc>>

\* the left operand of the condition: `force if force is not None else
\* Kolyre.FORCE_COLOR`; the flag is read only when force is None, and a true
\* value skips the right operand
ThreadReadFlag ==
    /\ thread.pc = "decide"
    /\ thread' = [thread EXCEPT
                     !.reads = IF request.force.t = "NoneType" THEN @ + 1 ELSE @,
                     !.pc = IF EffectiveForce(request.force, FORCE_COLOR)
                              THEN "join" ELSE "isatty"]
    /\ UNCHANGED <<FORCE_COLOR, isatty, request, result, at, normalized, queries,
                   stdout, console, demo, stack, flattened, pops, pc>>

\* the right operand: `not sys.stdout.isatty()`, then `return text`
ThreadQueryTty ==
    /\ thread.pc = "isatty"
    /\ queries' = queries + 1
    /\ IF ~isatty THEN
           /\ result' = Return(request.text)
           /\ thread' = [thread EXCEPT !.pc = "done"]
       ELSE
           /\ result' = result
           /\ thread' = [thread EXCEPT !.pc = "join"]
    /\ UNCHANGED <<FORCE_COLOR, isatty, request, at, normalized, stdout,
                   console, demo, stack, flattened, pops, pc>>

\* ThreadJoin that tests the flag again for the suffix:
\* `RESET if (force if force is not None else Kolyre.FORCE_COLOR) or isatty() else ""`
ThreadJoin_ResetOnSecondRead ==
    /\ thread.pc = "join"
    /\ result' = Return(PyStr(Join(thread.codes) \o request.text.v
                              \o IF ~PlainDecision(request.force, FORCE_COLOR, isatty)
                                   THEN RESET ELSE <<>>))
    /\ thread' = [thread EXCEPT !.pc = "done"]
    /\ UNCHANGED <<FORCE_COLOR, isatty, request, at, normalized, queries, stdout,
                   console, demo, stack, flattened, pops, pc>>

\* return f"{''.join(codes)}{text}{Kolyre.Style.RESET}"
ThreadJoin ==
    /\ thread.pc = "join"
    /\ result' = Return(PyStr(Join(thread.codes) \o request.text.v \o RESET))
    /\ thread' = [thread EXCEPT !.pc = "done"]
    /\ UNCHANGED <<FORCE_COLOR, isatty, request, at, normalized, queries, stdout,
                   console, demo, stack, flattened, pops, pc>>

NextThread ==
    \/ \E b \in BOOLEAN : AssignForceColor(b)
    \/ ThreadCall
    \/ ThreadExtend
    \/ ThreadReadFlag
    \/ ThreadQueryTty
    \/ ThreadJoin

SpecThread == InitThread /\ [][NextThread]_vars

-----------------------------------------------------------------------------
(* kolyre.demo: class Demo, what its renderers write to sys.stdout *)

\* Demo.DEFAULT_RGB_STEP
DEFAULT_RGB_STEP == 51
\* Demo.DEFAULT_FOREGROUND_BLOCK, Demo.DEFAULT_BACKGROUND_BLOCK
DEFAULT_FOREGROUND_BLOCK == PyStr(<<"A", "B", "C">>)
DEFAULT_BACKGROUND_BLOCK == PyStr(<<"A", "B", "C">>)
\* Demo.FALLBACK_TERMINAL_WIDTH
FALLBACK_TERMINAL_WIDTH == 80
\* Demo.GRID_CELL_PADDING
GRID_CELL_PADDING == 2

\* the stop of range(0, 256, rgb_step) and of range(256)
RangeStop == 256

\* most values one gradient loop may take (the gradient has the cube of it)
MaxAxisCells == 6

\* print(text, end=end): sys.stdout is held as the strings written to it, one
\* for each print() call, the call's end included
print(out, text, end) == Append(out, PyStr(text \o end))

\* dir(Kolyre.<class>): the attribute names in sorted order, each with its
\* characters; __doc__ and __module__ stand for the names every class has
dir(class) ==
    LET Name(name, chars) == [name |-> name, str |-> chars]
    IN  IF class = "Style" THEN
          <<
             Name("BOLD", <<"B", "O", "L", "D">>),
             Name("DIM", <<"D", "I", "M">>),
             Name("DOUBLE_UNDERLINE", <<"D", "O", "U", "B", "L", "E", "_", "U", "N", "D", "E", "R", "L", "I", "N", "E">>),
             Name("HIDDEN", <<"H", "I", "D", "D", "E", "N">>),
             Name("ITALIC", <<"I", "T", "A", "L", "I", "C">>),
             Name("OVERLINE", <<"O", "V", "E", "R", "L", "I", "N", "E">>),
             Name("RESET", <<"R", "E", "S", "E", "T">>),
             Name("RESET_BACKGROUND", <<"R", "E", "S", "E", "T", "_", "B", "A", "C", "K", "G", "R", "O", "U", "N", "D">>),
             Name("RESET_BOLD_DIM", <<"R", "E", "S", "E", "T", "_", "B", "O", "L", "D", "_", "D", "I", "M">>),
             Name("RESET_FOREGROUND", <<"R", "E", "S", "E", "T", "_", "F", "O", "R", "E", "G", "R", "O", "U", "N", "D">>),
             Name("RESET_HIDDEN", <<"R", "E", "S", "E", "T", "_", "H", "I", "D", "D", "E", "N">>),
             Name("RESET_ITALIC", <<"R", "E", "S", "E", "T", "_", "I", "T", "A", "L", "I", "C">>),
             Name("RESET_OVERLINE", <<"R", "E", "S", "E", "T", "_", "O", "V", "E", "R", "L", "I", "N", "E">>),
             Name("RESET_REVERSED", <<"R", "E", "S", "E", "T", "_", "R", "E", "V", "E", "R", "S", "E", "D">>),
             Name("RESET_STRIKETHROUGH", <<"R", "E", "S", "E", "T", "_", "S", "T", "R", "I", "K", "E", "T", "H", "R", "O", "U", "G", "H">>),
             Name("RESET_UNDERLINE", <<"R", "E", "S", "E", "T", "_", "U", "N", "D", "E", "R", "L", "I", "N", "E">>),
             Name("REVERSED", <<"R", "E", "V", "E", "R", "S", "E", "D">>),
             Name("STRIKETHROUGH", <<"S", "T", "R", "I", "K", "E", "T", "H", "R", "O", "U", "G", "H">>),
             Name("UNDERLINE", <<"U", "N", "D", "E", "R", "L", "I", "N", "E">>),
             Name("__doc__", <<"_", "_", "d", "o", "c", "_", "_">>),
             Name("__module__", <<"_", "_", "m", "o", "d", "u", "l", "e", "_", "_">>)
          >>
        ELSE
          <<
             Name("BLACK", <<"B", "L", "A", "C", "K">>),
             Name("BLUE", <<"B", "L", "U", "E">>),
             Name("BRIGHT_BLACK", <<"B", "R", "I", "G", "H", "T", "_", "B", "L", "A", "C", "K">>),
             Name("BRIGHT_BLUE", <<"B", "R", "I", "G", "H", "T", "_", "B", "L", "U", "E">>),
             Name("BRIGHT_CYAN", <<"B", "R", "I", "G", "H", "T", "_", "C", "Y", "A", "N">>),
             Name("BRIGHT_GREEN", <<"B", "R", "I", "G", "H", "T", "_", "G", "R", "E", "E", "N">>),
             Name("BRIGHT_MAGENTA", <<"B", "R", "I", "G", "H", "T", "_", "M", "A", "G", "E", "N", "T", "A">>),
             Name("BRIGHT_RED", <<"B", "R", "I", "G", "H", "T", "_", "R", "E", "D">>),
             Name("BRIGHT_WHITE", <<"B", "R", "I", "G", "H", "T", "_", "W", "H", "I", "T", "E">>),
             Name("BRIGHT_YELLOW", <<"B", "R", "I", "G", "H", "T", "_", "Y", "E", "L", "L", "O", "W">>),
             Name("CYAN", <<"C", "Y", "A", "N">>),
             Name("GREEN", <<"G", "R", "E", "E", "N">>),
             Name("MAGENTA", <<"M", "A", "G", "E", "N", "T", "A">>),
             Name("RED", <<"R", "E", "D">>),
             Name("WHITE", <<"W", "H", "I", "T", "E">>),
             Name("YELLOW", <<"Y", "E", "L", "L", "O", "W">>),
             Name("__doc__", <<"_", "_", "d", "o", "c", "_", "_">>),
             Name("__module__", <<"_", "_", "m", "o", "d", "u", "l", "e", "_", "_">>)
          >>

\* Demo._get_constants(const_class, exclude_keywords): the (name, value) pairs
\* of the names that do not start with "_", are upper case and hold no keyword
_get_constants(const_class, exclude_keywords) ==
    LET Upper == {"A", "B", "C", "D", "E", "F", "G", "H", "I", "J", "K", "L", "M", "N", "O", "P", "Q", "R", "S", "T", "U", "V", "W", "X", "Y", "Z"}
        Lower == {"a", "b", "c", "d", "e", "f", "g", "h", "i", "j", "k", "l", "m", "n", "o", "p", "q", "r", "s", "t", "u", "v", "w", "x", "y", "z"}
        startswith(s, prefix) ==
            Len(s) >= Len(prefix) /\ SubSeq(s, 1, Len(prefix)) = prefix
        isupper(s) ==
            /\ \E i \in 1..Len(s) : s[i] \in Upper
            /\ \A i \in 1..Len(s) : s[i] \notin Lower
        \* kw in name
        contains(s, kw) ==
            \E i \in 1..(Len(s) - Len(kw) + 1) : SubSeq(s, i, i + Len(kw) - 1) = kw
        kept(n) ==
            /\ ~startswith(n.str, <<"_">>)
            /\ isupper(n.str)
            /\ \A k \in 1..Len(exclude_keywords) : ~contains(n.str, exclude_keywords[k])
        names == SelectSeq(dir(const_class), kept)
    IN  [i \in 1..Len(names) |->
            <<names[i].str, getattr(const_class, names[i].name).value.v>>]

\* Demo.COLOR_CATEGORIES: a dict, held as its (key, value) pairs in order
COLOR_CATEGORIES ==
    <<[name |-> <<"1", "6", "-", "C", "o", "l", "o", "r", " ", "F", "o", "r", "e", "g", "r", "o", "u", "n", "d", " ", "P", "a", "l", "e", "t", "t", "e">>,
       items |-> _get_constants("Foreground", <<>>)],
      [name |-> <<"1", "6", "-", "C", "o", "l", "o", "r", " ", "B", "a", "c", "k", "g", "r", "o", "u", "n", "d", " ", "P", "a", "l", "e", "t", "t", "e">>,
       items |-> _get_constants("Background", <<>>)]>>

\* Demo.STYLE_CATEGORIES
STYLE_CATEGORIES ==
    <<[name |-> <<"T", "e", "x", "t", " ", "S", "t", "y", "l", "e", "s">>,
       items |-> _get_constants("Style",
           <<
             <<"R", "E", "S", "E", "T">>,
             <<"R", "E", "S", "E", "T", "_", "B", "O", "L", "D", "_", "D", "I", "M">>,
             <<"R", "E", "S", "E", "T", "_", "I", "T", "A", "L", "I", "C">>,
             <<"R", "E", "S", "E", "T", "_", "U", "N", "D", "E", "R", "L", "I", "N", "E">>,
             <<"R", "E", "S", "E", "T", "_", "R", "E", "V", "E", "R", "S", "E", "D">>,
             <<"R", "E", "S", "E", "T", "_", "H", "I", "D", "D", "E", "N">>,
             <<"R", "E", "S", "E", "T", "_", "S", "T", "R", "I", "K", "E", "T", "H", "R", "O", "U", "G", "H">>,
             <<"R", "E", "S", "E", "T", "_", "O", "V", "E", "R", "L", "I", "N", "E">>,
             <<"R", "E", "S", "E", "T", "_", "F", "O", "R", "E", "G", "R", "O", "U", "N", "D">>,
             <<"R", "E", "S", "E", "T", "_", "B", "A", "C", "K", "G", "R", "O", "U", "N", "D">>
           >>)]>>

\* Demo._get_terminal_width(): terminal is what shutil.get_terminal_size()
\* does, Return(columns) or raise OSError
_get_terminal_width(terminal) ==
    IF terminal.kind = "raise" /\ issubclass(terminal.exc, {"OSError"})
      THEN FALLBACK_TERMINAL_WIDTH
      ELSE terminal.value

\* Demo._calculate_items_per_row(maximum_item_length, padding)
_calculate_items_per_row(terminal, maximum_item_length, padding) ==
    LET fitting == _get_terminal_width(terminal) \div (maximum_item_length + padding)
    IN  IF fitting > 1 THEN fitting ELSE 1

\* Demo.render_header(section_title); h is what the renderer finds around it:
\* Kolyre.FORCE_COLOR, sys.stdout.isatty() and the terminal
render_header(h, out, section_title) ==
    LET \* text.center(width, "="): an odd margin gives the left side the
        \* extra fill character when the width is odd, the right side otherwise
        center(text, width) ==
            IF width <= Len(text) THEN text
            ELSE LET marg == width - Len(text)
                     left == marg \div 2 + (IF marg % 2 = 1 /\ width % 2 = 1 THEN 1 ELSE 0)
                 IN  Repeat("=", left) \o text \o Repeat("=", marg - left)
        header_text == <<" ">> \o section_title \o <<" ">>
        width == _get_terminal_width(h.terminal)
    IN  print(out,
              <<"\n">>
              \o colorize(PyStr(center(header_text, width)),
                          <<PyStr(Style.BOLD), PyStr(Foreground.CYAN)>>,
                          PyNone, h.FORCE_COLOR, h.isatty).value.v
              \o <<"\n">>,
              <<"\n">>)

RECURSIVE render_category_grid(_, _, _)
\* Demo.render_category_grid(category_mapping)
render_category_grid(h, out, category_mapping) ==
    IF Len(category_mapping) = 0 THEN out
    ELSE
      LET category_items == Head(category_mapping).items
          Longest(lengths) == CHOOSE n \in lengths : \A m \in lengths : m <= n
          Grid(maximum_length, items_per_row) ==
              LET \* f"{color_code}{item_name:<{maximum_length}}{Kolyre.Style.RESET}"
                  Cell(item) ==
                      item[2] \o item[1]
                      \o (IF Len(item[1]) < maximum_length
                            THEN Repeat(" ", maximum_length - Len(item[1])) ELSE <<>>)
                      \o Style.RESET
                  \* " ".join(...) over category_items[index : index + items_per_row]
                  Row(index) ==
                      LET last == IF index + items_per_row < Len(category_items)
                                    THEN index + items_per_row ELSE Len(category_items)
                      IN  Join([i \in 1..(last - index) |->
                                   (IF i = 1 THEN <<>> ELSE <<" ">>)
                                   \o Cell(category_items[index + i])])
                  rows == (Len(category_items) + items_per_row - 1) \div items_per_row
              IN  [r \in 1..rows |-> PyStr(Row((r - 1) * items_per_row) \o <<"\n">>)]
          Rendered(maximum_length) ==
              render_header(h, out, Head(category_mapping).name)
              \o Grid(maximum_length,
                      _calculate_items_per_row(h.terminal, maximum_length, GRID_CELL_PADDING))
      IN  render_category_grid(h,
              IF Len(category_items) = 0 THEN out
              ELSE Rendered(Longest({Len(category_items[i][1]) :
                                         i \in 1..Len(category_items)})
                            + GRID_CELL_PADDING),
              Tail(category_mapping))

\* Demo.render_text_styles()
render_text_styles(h, out) == render_category_grid(h, out, STYLE_CATEGORIES)

\* Demo.render_16_palette()
render_16_palette(h, out) == render_category_grid(h, out, COLOR_CATEGORIES)

\* range(...) with the stop included: range(0, 257, step)
HasNext_Inclusive(value, step) == value + step <= RangeStop

\* the range iterator has a value after this one
HasNext(value, step) == value + step < RangeStop

\* Demo.render_rgb_gradient and Demo.render_256_palette up to their loops: the
\* header is printed, items_per_row computed, count = 0, and each loop stands
\* at the first value of its range; range() refuses a step of 0 and is empty
\* for a negative one
RenderStart(call, h, out) ==
    LET gradient == call.op = "render_rgb_gradient"
        title ==
            (IF gradient THEN <<"T", "r", "u", "e", "c", "o", "l", "o", "r", " ", "R", "G", "B", " ", "G", "r", "a", "d", "i", "e", "n", "t", " ", "(">>
             ELSE <<"2", "5", "6", "-", "C", "o", "l", "o", "r", " ", "P", "a", "l", "e", "t", "t", "e", " ", "(">>)
            \o (IF call.is_foreground THEN <<"F", "o", "r", "e", "g", "r", "o", "u", "n", "d">>
                ELSE <<"B", "a", "c", "k", "g", "r", "o", "u", "n", "d">>)
            \o <<")">>
        Frame(position, items_per_row) ==
            [pc |-> position, red_value |-> 0, green_value |-> 0, blue_value |-> 0,
             color_index |-> 0, count |-> 0, items_per_row |-> items_per_row]
        Entered(position, outcome) ==
            [demo |-> Frame(position,
                            IF gradient
                              THEN _calculate_items_per_row(h.terminal,
                                       Len(call.display_block.v) + 1, GRID_CELL_PADDING)
                              ELSE _calculate_items_per_row(h.terminal, 4, 1)),
             stdout |-> render_header(h, out, title),
             result |-> outcome]
    IN  IF gradient /\ call.rgb_step = 0
          THEN Entered("raised", Raise("ValueError", "range() arg 3 must not be zero"))
        ELSE IF gradient /\ call.rgb_step < 0 THEN Entered("done", NoResult)
        ELSE Entered("cell", NoResult)

\* one pass of the innermost gradient loop: the color code is computed, the
\* cell is printed and counted, a full row is ended, and the three loops move on
GradientPass(call, st) ==
    LET d == st.demo
        step == call.rgb_step
        Printed(color_code) ==
            LET cell == print(st.stdout,
                              color_code \o call.display_block.v \o Style.RESET, <<" ">>)
            IN  IF (d.count + 1) % d.items_per_row = 0
                  THEN print(cell, <<>>, <<"\n">>) ELSE cell
        counted == [d EXCEPT !.count = @ + 1]
        Moved ==
            IF HasNext(d.blue_value, step)
              THEN [counted EXCEPT !.blue_value = @ + step]
            ELSE IF HasNext(d.green_value, step)
              THEN [counted EXCEPT !.green_value = @ + step, !.blue_value = 0]
            ELSE IF HasNext(d.red_value, step)
              THEN [counted EXCEPT !.red_value = @ + step,
                                   !.green_value = 0, !.blue_value = 0]
            ELSE [counted EXCEPT !.pc = "done"]
        Passed(outcome) ==
            IF outcome.kind = "raise"
              THEN [demo |-> [d EXCEPT !.pc = "raised"], stdout |-> st.stdout,
                    result |-> outcome]
              ELSE [demo |-> Moved, stdout |-> Printed(outcome.value.v),
                    result |-> outcome]
    IN  Passed(IF call.is_foreground
                 THEN foreground_rgb(PyInt(d.red_value), PyInt(d.green_value),
                                     PyInt(d.blue_value))
                 ELSE background_rgb(PyInt(d.red_value), PyInt(d.green_value),
                                     PyInt(d.blue_value)))

\* one pass of `for color_index in range(256)`
PalettePass(call, st) ==
    LET d == st.demo
        \* f"{color_index:>3}"
        digits == IntStr(d.color_index)
        color_label == IF Len(digits) = 1 THEN <<" ", " ">> \o digits
                       ELSE IF Len(digits) = 2 THEN <<" ">> \o digits
                       ELSE digits
        Printed(color_code) ==
            LET cell == print(st.stdout, color_code \o color_label \o Style.RESET, <<" ">>)
            IN  IF (d.color_index + 1) % d.items_per_row = 0
                  THEN print(cell, <<>>, <<"\n">>) ELSE cell
        counted == [d EXCEPT !.count = @ + 1]
        Passed(outcome) ==
            IF outcome.kind = "raise"
              THEN [demo |-> [d EXCEPT !.pc = "raised"], stdout |-> st.stdout,
                    result |-> outcome]
              ELSE [demo |-> IF HasNext(d.color_index, 1)
                               THEN [counted EXCEPT !.color_index = @ + 1]
                               ELSE [counted EXCEPT !.pc = "done"],
                    stdout |-> Printed(outcome.value.v),
                    result |-> outcome]
    IN  Passed(IF call.is_foreground THEN foreground_256(PyInt(d.color_index))
               ELSE background_256(PyInt(d.color_index)))

\* the loops are over: a row left unfinished is ended and the renderer
\* returns None
RenderFinish(call, st) ==
    LET cells == IF call.op = "render_rgb_gradient" THEN st.demo.count ELSE RangeStop
    IN  [demo |-> [st.demo EXCEPT !.pc = "returned"],
         stdout |-> IF cells % st.demo.items_per_row # 0
                      THEN print(st.stdout, <<>>, <<"\n">>) ELSE st.stdout,
         result |-> Return(PyNone)]

RECURSIVE RenderPasses(_, _, _)
\* at most so many passes of the renderer's loop, as long as there is a cell to
\* print; the passes are run half by half, which keeps the evaluation shallow
RenderPasses(call, st, passes) ==
    IF st.demo.pc # "cell" \/ passes = 0 THEN st
    ELSE IF passes = 1
      THEN IF call.op = "render_rgb_gradient" THEN GradientPass(call, st)
           ELSE PalettePass(call, st)
    ELSE RenderPasses(call, RenderPasses(call, st, passes \div 2),
                      passes - passes \div 2)

RECURSIVE RenderToEnd(_, _)
\* the renderer from where it stands to its return, or to the exception
RenderToEnd(call, st) ==
    IF st.demo.pc = "cell" THEN RenderToEnd(call, RenderPasses(call, st, RangeStop))
    ELSE IF st.demo.pc = "done" THEN RenderFinish(call, st)
    ELSE st

\* Demo.render_256_palette(is_foreground)
render_256_palette(h, out, is_foreground) ==
    LET Run(call) == RenderToEnd(call, RenderStart(call, h, out))
    IN  Run([op |-> "render_256_palette", is_foreground |-> is_foreground])

\* Demo.render_rgb_gradient(is_foreground, rgb_step, display_block)
render_rgb_gradient(h, out, is_foreground, rgb_step, display_block) ==
    LET Run(call) == RenderToEnd(call, RenderStart(call, h, out))
    IN  Run([op |-> "render_rgb_gradient", is_foreground |-> is_foreground,
             rgb_step |-> rgb_step, display_block |-> display_block])

\* the renderers Demo.run(args) calls, in its order
RunCalls(args) ==
    LET Render(name, is_foreground, rgb_step, display_block) ==
            [render |-> name, is_foreground |-> is_foreground, rgb_step |-> rgb_step,
             display_block |-> display_block]
        \* `block or default`, block being None or a string
        Or(block, default) ==
            IF block = PyNone \/ Len(block.v) = 0 THEN default ELSE block
    IN
        (IF args.styles THEN <<Render("render_text_styles", TRUE, PyNone, PyNone)>>
         ELSE <<>>)
        \o (IF args.palette16 THEN <<Render("render_16_palette", TRUE, PyNone, PyNone)>>
            ELSE <<>>)
        \o (IF args.palette256
              THEN <<Render("render_256_palette", TRUE, PyNone, PyNone),
                     Render("render_256_palette", FALSE, PyNone, PyNone)>>
              ELSE <<>>)
        \o (IF args.rgb
              THEN <<Render("render_rgb_gradient", TRUE, args.rgb_step,
                            Or(args.rgb_block_fg, DEFAULT_FOREGROUND_BLOCK)),
                     Render("render_rgb_gradient", FALSE, args.rgb_step,
                            Or(args.rgb_block_bg, DEFAULT_BACKGROUND_BLOCK))>>
              ELSE <<>>)

RECURSIVE RunRenderers(_, _, _)
\* the renderer calls made one after the other; an exception ends them
RunRenderers(h, st, calls) ==
    IF Len(calls) = 0 \/ st.result.kind = "raise" THEN st
    ELSE LET call == Head(calls)
             Returned(written) == [stdout |-> written, result |-> Return(PyNone)]
             Ended(rendered) == [stdout |-> rendered.stdout, result |-> rendered.result]
         IN  RunRenderers(h,
                 IF call.render = "render_text_styles"
                   THEN Returned(render_text_styles(h, st.stdout))
                 ELSE IF call.render = "render_16_palette"
                   THEN Returned(render_16_palette(h, st.stdout))
                 ELSE IF call.render = "render_256_palette"
                   THEN Ended(render_256_palette(h, st.stdout, call.is_foreground))
                 ELSE Ended(render_rgb_gradient(h, st.stdout, call.is_foreground,
                                                call.rgb_step.v, call.display_block)),
                 Tail(calls))

\* Demo.run(parsed_arguments): what it has written, and None or the exception
\* of the renderer that raised
run(h, out, parsed_arguments) ==
    RunRenderers(h, [stdout |-> out, result |-> Return(PyNone)],
                 RunCalls(parsed_arguments))

-----------------------------------------------------------------------------
(* kolyre.demo: main(), statement by statement *)

\* the messages main() and its helpers print, each held as one piece of text
Messages ==
    [version |-> PyStr(<<"Kolyre {version}">>),
     metadata |-> PyStr(<<"Error: Kolyre package metadata not found. Is it installed?">>),
     rgb_options |-> PyStr(<<"Error: RGB options specified without '--rgb' enabled.">>),
     rgb_step |-> PyStr(<<"Invalid --rgb-step value. Must be between 1 and 255.">>),
     enabled |-> PyStr(<<"ANSI terminal support enabled.">>),
     continuing |-> PyStr(<<"Continuing with --force.">>),
     failed |-> PyStr(<<"Failed to enable ANSI support.">>)]

\* parser.parse_args(): --rgb-step has default=Demo.DEFAULT_RGB_STEP, the
\* block options default to None, the flags to False
parse_args(argv) ==
    [argv EXCEPT !.rgb_step = IF argv.rgb_step = PyNone THEN PyInt(DEFAULT_RGB_STEP)
                              ELSE argv.rgb_step]

\* a command line, a terminal 80 columns wide, and the host the demo runs on:
\* not Windows; Windows without ctypes; a Windows console that takes the
\* mode; one that refuses it
DemoRequests ==
    LET \* each store_true flag present or not, --rgb-step absent or an integer,
        \* --rgb-block-fg and --rgb-block-bg absent or a string
        CommandLines ==
            {[all |-> a, styles |-> s, palette16 |-> p16, palette256 |-> p256,
              rgb |-> r, rgb_step |-> rs, rgb_block_fg |-> rb[1],
              rgb_block_bg |-> rb[2], version |-> v, force |-> f] :
                a \in BOOLEAN, s \in BOOLEAN, p16 \in BOOLEAN, p256 \in BOOLEAN,
                r \in BOOLEAN,
                rs \in {PyNone, PyInt(0), PyInt(1), PyInt(51), PyInt(255), PyInt(256)},
                rb \in {<<PyNone, PyNone>>, <<PyStr(<<"#">>), PyNone>>,
                        <<PyNone, PyStr(<<>>)>>},
                v \in BOOLEAN, f \in BOOLEAN}
    IN
    [op : {"main"}, argv : CommandLines, terminal : {Return(FALLBACK_TERMINAL_WIDTH)},
     env : {e \in AnsiRequests :
               /\ e.mode = 3
               /\ e.GetStdHandle = Return(42)
               /\ e.GetConsoleMode = Return(1)
               /\ \/ e.platform = "linux" /\ e.ctypes = "ok" /\ e.SetConsoleMode = Return(1)
                  \/ e.platform = "win32" /\ e.ctypes = "ImportError"
                                          /\ e.SetConsoleMode = Return(1)
                  \/ e.platform = "win32" /\ e.ctypes = "ok"
                                          /\ e.SetConsoleMode \in {Return(0), Return(1)}}]

\* main() after `args = parser.parse_args()`
InitDemo ==
    /\ FORCE_COLOR = FALSE
    /\ isatty \in BOOLEAN
    /\ request \in DemoRequests
    /\ result = NoResult
    /\ at = NotCalled
    /\ normalized = NoResult
    /\ queries = 0
    /\ stdout = <<>>
    /\ console = Idle /\ thread = Idle
    /\ demo = [pc |-> "enable", args |-> parse_args(request.argv),
               ansi_supported |-> FALSE, status |-> 0, calls |-> <<>>]
    /\ stack = Idle /\ flattened = Idle /\ pops = 0 /\ pc = "idle"

\* ansi_supported = Kolyre.enable_ansi_support()
DemoEnableAnsi ==
    /\ demo.pc = "enable"
    /\ demo' = [demo EXCEPT !.pc = "force",
                            !.ansi_supported = enable_ansi_support(request.env).value.v]
    /\ UNCHANGED <<FORCE_COLOR, isatty, request, result, at, normalized, queries,
                   stdout, console, thread, stack, flattened, pops, pc>>

\* DemoApplyForce that sets the flag and leaves ansi_supported as it was found
DemoApplyForce_FlagOnly ==
    /\ demo.pc = "force"
    /\ FORCE_COLOR' = (IF demo.args.force THEN TRUE ELSE FORCE_COLOR)
    /\ demo' = [demo EXCEPT !.pc = "all"]
    /\ UNCHANGED <<isatty, request, result, at, normalized, queries,
                   stdout, console, thread, stack, flattened, pops, pc>>

\* if args.force: Kolyre.FORCE_COLOR = True; ansi_supported = True
DemoApplyForce ==
    /\ demo.pc = "force"
    /\ FORCE_COLOR' = (IF demo.args.force THEN TRUE ELSE FORCE_COLOR)
    /\ demo' = [demo EXCEPT !.pc = "all",
                            !.ansi_supported = IF demo.args.force THEN TRUE ELSE @]
    /\ UNCHANGED <<isatty, request, result, at, normalized, queries,
                   stdout, console, thread, stack, flattened, pops, pc>>

\* if args.all: args.palette16 = args.palette256 = args.styles = args.rgb = True
DemoApplyAll ==
    /\ demo.pc = "all"
    /\ demo' = IF demo.args.all
                 THEN [demo EXCEPT !.pc = "version",
                                   !.args.palette16 = TRUE, !.args.palette256 = TRUE,
                                   !.args.styles = TRUE, !.args.rgb = TRUE]
                 ELSE [demo EXCEPT !.pc = "version"]
    /\ UNCHANGED <<FORCE_COLOR, isatty, request, result, at, normalized, queries,
                   stdout, console, thread, stack, flattened, pops, pc>>

\* if args.version: show_version(args, ansi_supported), which prints the
\* version, or the metadata error when the package is not installed, and exits
DemoShowVersion ==
    /\ demo.pc = "version"
    /\ IF demo.args.version THEN
           /\ \E installed \in BOOLEAN :
                 stdout' = print(stdout,
                     (IF ~installed THEN Messages.metadata
                     ELSE IF demo.ansi_supported \/ demo.args.force
                       THEN colorize(Messages.version, <<PyStr(Style.BOLD), PyStr(Foreground.BRIGHT_GREEN)>>,
                                     PyNone, FORCE_COLOR, isatty).value
                       ELSE Messages.version).v, <<"\n">>)
           /\ demo' = [demo EXCEPT !.pc = "exit", !.status = 0]
       ELSE
           /\ stdout' = stdout
           /\ demo' = [demo EXCEPT !.pc = "validate"]
    /\ UNCHANGED <<FORCE_COLOR, isatty, request, result, at, normalized, queries,
                   console, thread, stack, flattened, pops, pc>>

\* any(iterable) over booleans
any(flags) == \E i \in 1..Len(flags) : flags[i]

\* validate_rgb_flags(args, ansi_supported)
DemoValidateRgbFlags ==
    /\ demo.pc = "validate"
    /\ IF ~demo.args.rgb /\ any(<<demo.args.rgb_step # PyInt(DEFAULT_RGB_STEP),
                                 demo.args.rgb_block_fg # PyNone,
                                 demo.args.rgb_block_bg # PyNone>>) THEN
           /\ stdout' = print(stdout,
                  (IF demo.ansi_supported
                    THEN colorize(Messages.rgb_options, <<PyStr(Style.BOLD), PyStr(Foreground.RED)>>,
                                  PyNone, FORCE_COLOR, isatty).value
                    ELSE Messages.rgb_options).v, <<"\n">>)
           /\ demo' = [demo EXCEPT !.pc = "exit", !.status = 1]
       ELSE
           /\ stdout' = stdout
           /\ demo' = [demo EXCEPT !.pc = "selection"]
    /\ UNCHANGED <<FORCE_COLOR, isatty, request, result, at, normalized, queries,
                   console, thread, stack, flattened, pops, pc>>

\* if not any((args.palette16, args.palette256, args.styles, args.rgb)):
\* the help goes to stderr and the process exits with 0
DemoCheckSelection ==
    /\ demo.pc = "selection"
    /\ demo' = IF ~any(<<demo.args.palette16, demo.args.palette256,
                         demo.args.styles, demo.args.rgb>>)
                 THEN [demo EXCEPT !.pc = "exit", !.status = 0]
                 ELSE [demo EXCEPT !.pc = "step"]
    /\ UNCHANGED <<FORCE_COLOR, isatty, request, result, at, normalized, queries,
                   stdout, console, thread, stack, flattened, pops, pc>>

\* 1 <= args.rgb_step <= 255
StepAllowed(step) == 1 <= step /\ step <= 255

\* if args.rgb and not 1 <= args.rgb_step <= 255
DemoCheckRgbStep ==
    /\ demo.pc = "step"
    /\ IF demo.args.rgb /\ ~StepAllowed(demo.args.rgb_step.v) THEN
           /\ stdout' = print(stdout,
                  (IF demo.ansi_supported
                    THEN colorize(Messages.rgb_step, <<PyStr(Style.BOLD), PyStr(Foreground.RED)>>,
                                  PyNone, FORCE_COLOR, isatty).value
                    ELSE Messages.rgb_step).v, <<"\n">>)
           /\ demo' = [demo EXCEPT !.pc = "exit", !.status = 1]
       ELSE
           /\ stdout' = stdout
           /\ demo' = [demo EXCEPT !.pc = "support"]
    /\ UNCHANGED <<FORCE_COLOR, isatty, request, result, at, normalized, queries,
                   console, thread, stack, flattened, pops, pc>>

\* DemoCheckSupport whose last branch prints the failure and goes on
DemoCheckSupport_WarnOnly ==
    /\ demo.pc = "support"
    /\ stdout' = print(stdout,
           (IF demo.ansi_supported
             THEN colorize(Messages.enabled, <<PyStr(Style.BOLD), PyStr(Foreground.BRIGHT_GREEN)>>,
                           PyNone, FORCE_COLOR, isatty).value
           ELSE IF demo.args.force
             THEN colorize(Messages.continuing, <<PyStr(Style.BOLD), PyStr(Foreground.BRIGHT_YELLOW)>>,
                           PyNone, FORCE_COLOR, isatty).value
           ELSE Messages.failed).v, <<"\n">>)
    /\ demo' = [demo EXCEPT !.pc = "run"]
    /\ UNCHANGED <<FORCE_COLOR, isatty, request, result, at, normalized, queries,
                   console, thread, stack, flattened, pops, pc>>

\* if ansi_supported: ... elif args.force: ... else: ...; sys.exit(1)
DemoCheckSupport ==
    /\ demo.pc = "support"
    /\ stdout' = print(stdout,
           (IF demo.ansi_supported
             THEN colorize(Messages.enabled, <<PyStr(Style.BOLD), PyStr(Foreground.BRIGHT_GREEN)>>,
                           PyNone, FORCE_COLOR, isatty).value
           ELSE IF demo.args.force
             THEN colorize(Messages.continuing, <<PyStr(Style.BOLD), PyStr(Foreground.BRIGHT_YELLOW)>>,
                           PyNone, FORCE_COLOR, isatty).value
           ELSE Messages.failed).v, <<"\n">>)
    /\ demo' = IF demo.ansi_supported \/ demo.args.force
                 THEN [demo EXCEPT !.pc = "run"]
                 ELSE [demo EXCEPT !.pc = "exit", !.status = 1]
    /\ UNCHANGED <<FORCE_COLOR, isatty, request, result, at, normalized, queries,
                   console, thread, stack, flattened, pops, pc>>

\* Demo.run(args), as far as the gradient stays within the bound
DemoRun ==
    /\ demo.pc = "run"
    /\ demo.args.rgb => demo.args.rgb_step.v * MaxAxisCells >= RangeStop
    /\ \E ran \in {run([FORCE_COLOR |-> FORCE_COLOR, isatty |-> isatty,
                        terminal |-> request.terminal], stdout, demo.args)} :
          /\ stdout' = ran.stdout
          /\ demo' = [demo EXCEPT !.pc = IF ran.result.kind = "raise" THEN "raised"
                                         ELSE "returned",
                                  !.calls = RunCalls(demo.args)]
    /\ UNCHANGED <<FORCE_COLOR, isatty, request, result, at, normalized, queries,
                   console, thread, stack, flattened, pops, pc>>

NextDemo ==
    \/ DemoEnableAnsi
    \/ DemoApplyForce
    \/ DemoApplyAll
    \/ DemoShowVersion
    \/ DemoValidateRgbFlags
    \/ DemoCheckSelection
    \/ DemoCheckRgbStep
    \/ DemoCheckSupport
    \/ DemoRun

SpecDemo == InitDemo /\ [][NextDemo]_vars

-----------------------------------------------------------------------------
(* The renderers of class Demo called on their own, the two with loops one
   cell at a time *)

\* the renderer calls: the gradient for the steps main() lets through, as far
\* as it stays within the bound, the palette, the grids and the header, on a
\* terminal 80 columns wide, a narrower one, and one whose size cannot be read
RenderRequests ==
    LET Unreadable == Raise("OSError", "get_terminal_size")
    IN
    [op : {"render_rgb_gradient"}, is_foreground : BOOLEAN,
     rgb_step : {s \in 0..RangeStop : StepAllowed(s) /\ s * MaxAxisCells >= RangeStop},
     display_block : {DEFAULT_FOREGROUND_BLOCK}, terminal : {Return(80)}]
    \cup [op : {"render_rgb_gradient"}, is_foreground : BOOLEAN, rgb_step : {128, 255},
          display_block : {DEFAULT_FOREGROUND_BLOCK, PyStr(<<"#">>)},
          terminal : {Return(5), Return(20), Unreadable}]
    \cup [op : {"render_256_palette"}, is_foreground : BOOLEAN,
          terminal : {Return(80), Return(33), Return(4), Unreadable}]
    \cup [op : {"render_text_styles", "render_16_palette"},
          terminal : {Return(80), Return(81), Return(40), Return(10), Unreadable}]
    \cup [op : {"render_category_grid"},
          category_mapping : {STYLE_CATEGORIES, COLOR_CATEGORIES, <<>>,
                              <<[name |-> <<"A", "B">>, items |-> <<>>]>>
                              \o STYLE_CATEGORIES},
          terminal : {Return(80), Return(33)}]
    \cup [op : {"render_header"},
          section_title : {<<>>, <<"A", "B">>, STYLE_CATEGORIES[1].name},
          terminal : {Return(80), Return(81), Return(12), Return(1), Unreadable}]

\* the two renderers with loops write plainly; the others are also called
\* with sys.stdout a terminal
InitRender ==
    /\ FORCE_COLOR = FALSE
    /\ request \in RenderRequests
    /\ isatty \in (IF request.op \in {"render_rgb_gradient", "render_256_palette"}
                    THEN {FALSE} ELSE BOOLEAN)
    /\ result = NoResult
    /\ at = NotCalled
    /\ normalized = NoResult
    /\ queries = 0
    /\ stdout = <<>>
    /\ console = Idle /\ demo = Idle /\ thread = Idle
    /\ stack = Idle /\ flattened = Idle /\ pops = 0 /\ pc = "idle"

\* Demo.render_rgb_gradient or Demo.render_256_palette is called: the header
\* is printed, count = 0, and each loop stands at the first value of its range
RenderEnter ==
    /\ request.op \in {"render_rgb_gradient", "render_256_palette"}
    /\ demo = Idle
    /\ \E entered \in {RenderStart(request,
                                    [FORCE_COLOR |-> FORCE_COLOR, isatty |-> isatty,
                                     terminal |-> request.terminal], stdout)} :
          /\ demo' = entered.demo
          /\ stdout' = entered.stdout
          /\ result' = entered.result
    /\ UNCHANGED <<FORCE_COLOR, isatty, request, at, normalized, queries,
                   console, thread, stack, flattened, pops, pc>>

\* one pass of the innermost gradient loop
GradientCell ==
    /\ request.op = "render_rgb_gradient"
    /\ demo # Idle
    /\ demo.pc = "cell"
    /\ \E passed \in {GradientPass(request, [demo |-> demo, stdout |-> stdout,
                                              result |-> result])} :
          /\ demo' = passed.demo
          /\ stdout' = passed.stdout
          /\ result' = passed.result
    /\ UNCHANGED <<FORCE_COLOR, isatty, request, at, normalized, queries,
                   console, thread, stack, flattened, pops, pc>>

\* one pass of `for color_index in range(256)`
PaletteCell ==
    /\ request.op = "render_256_palette"
    /\ demo # Idle
    /\ demo.pc = "cell"
    /\ \E passed \in {PalettePass(request, [demo |-> demo, stdout |-> stdout,
                                             result |-> result])} :
          /\ demo' = passed.demo
          /\ stdout' = passed.stdout
          /\ result' = passed.result
    /\ UNCHANGED <<FORCE_COLOR, isatty, request, at, normalized, queries,
                   console, thread, stack, flattened, pops, pc>>

\* the loops are over: a row left unfinished is ended, the renderer returns None
RenderReturn ==
    /\ request.op \in {"render_rgb_gradient", "render_256_palette"}
    /\ demo # Idle
    /\ demo.pc = "done"
    /\ \E finished \in {RenderFinish(request, [demo |-> demo, stdout |-> stdout,
                                                result |-> result])} :
          /\ demo' = finished.demo
          /\ stdout' = finished.stdout
          /\ result' = finished.result
    /\ UNCHANGED <<FORCE_COLOR, isatty, request, at, normalized, queries,
                   console, thread, stack, flattened, pops, pc>>

\* Demo.render_header(section_title)
RenderHeader ==
    /\ request.op = "render_header"
    /\ result = NoResult
    /\ stdout' = render_header([FORCE_COLOR |-> FORCE_COLOR, isatty |-> isatty,
                                terminal |-> request.terminal],
                               stdout, request.section_title)
    /\ result' = Return(PyNone)
    /\ UNCHANGED <<FORCE_COLOR, isatty, request, at, normalized, queries,
                   console, demo, thread, stack, flattened, pops, pc>>

\* Demo.render_category_grid(category_mapping)
RenderCategoryGrid ==
    /\ request.op = "render_category_grid"
    /\ result = NoResult
    /\ stdout' = render_category_grid([FORCE_COLOR |-> FORCE_COLOR, isatty |-> isatty,
                                       terminal |-> request.terminal],
                                      stdout, request.category_mapping)
    /\ result' = Return(PyNone)
    /\ UNCHANGED <<FORCE_COLOR, isatty, request, at, normalized, queries,
                   console, demo, thread, stack, flattened, pops, pc>>

\* Demo.render_text_styles()
RenderTextStyles ==
    /\ request.op = "render_text_styles"
    /\ result = NoResult
    /\ stdout' = render_text_styles([FORCE_COLOR |-> FORCE_COLOR, isatty |-> isatty,
                                     terminal |-> request.terminal], stdout)
    /\ result' = Return(PyNone)
    /\ UNCHANGED <<FORCE_COLOR, isatty, request, at, normalized, queries,
                   console, demo, thread, stack, flattened, pops, pc>>

\* Demo.render_16_palette()
Render16Palette ==
    /\ request.op = "render_16_palette"
    /\ result = NoResult
    /\ stdout' = render_16_palette([FORCE_COLOR |-> FORCE_COLOR, isatty |-> isatty,
                                    terminal |-> request.terminal], stdout)
    /\ result' = Return(PyNone)
    /\ UNCHANGED <<FORCE_COLOR, isatty, request, at, normalized, queries,
                   console, demo, thread, stack, flattened, pops, pc>>

NextRender ==
    \/ RenderEnter
    \/ GradientCell
    \/ PaletteCell
    \/ RenderReturn
    \/ RenderHeader
    \/ RenderCategoryGrid
    \/ RenderTextStyles
    \/ Render16Palette

\* the interpreter keeps running the loop it is in
SpecRender == InitRender /\ [][NextRender]_vars /\ WF_vars(NextRender)

-----------------------------------------------------------------------------
(* What the composer's contract says, stated without the code's operators *)

\* the reset sequence ESC[0m
ResetSequence == <<ESC, "[", "0", "m">>

RECURSIVE Descend(_), DescendAll(_)
\* the code strings of a structure, by recursive left-to-right depth-first descent
Descend(node) ==
    IF node.t = "str" THEN <<node.v>>
    ELSE IF node.t \in {"list", "tuple"} THEN DescendAll(node.v)
    ELSE <<>>
DescendAll(nodes) ==
    IF Len(nodes) = 0 THEN <<>> ELSE Descend(Head(nodes)) \o DescendAll(Tail(nodes))

RECURSIVE WellFormed(_)
\* every leaf is a string
WellFormed(node) ==
    \/ node.t = "str"
    \/ /\ node.t \in {"list", "tuple"}
       /\ \A i \in 1..Len(node.v) : WellFormed(node.v[i])

RECURSIVE NodeCount(_), NodeCountAll(_)
\* the nodes of a structure: its strings, its groups and its other leaves
NodeCount(node) ==
    IF node.t \in {"list", "tuple"} THEN 1 + NodeCountAll(node.v) ELSE 1
NodeCountAll(nodes) ==
    IF Len(nodes) = 0 THEN 0 ELSE NodeCount(Head(nodes)) + NodeCountAll(Tail(nodes))

RECURSIVE Concat(_)
Concat(ss) == IF Len(ss) = 0 THEN <<>> ELSE Head(ss) \o Concat(Tail(ss))

\* all codes in order, then the text, then the reset sequence
Decorated(text, groups) == PyStr(Concat(DescendAll(groups)) \o text.v \o ResetSequence)

ColorizeDone == request.op = "colorize" /\ at.called
TextIsStr == request.text.t = "str"
HasGroups == Len(request.ansi_codes) > 0
GroupsWellFormed == \A i \in 1..Len(request.ansi_codes) : WellFormed(request.ansi_codes[i])
ForceGiven == request.force.t = "bool"
\* (force if force is not None else FORCE_COLOR) or isatty(), at the call
ShouldStyle ==
    \/ IF ForceGiven THEN request.force.v ELSE at.FORCE_COLOR
    \/ at.isatty

\* C1: a colorize call with a string text and at least one code group that
\* flattens without error returns the decorated string iff
\* (force if given else FORCE_COLOR) or isatty() holds, and otherwise exactly text.
C1_CapabilityGate ==
    (ColorizeDone /\ TextIsStr /\ HasGroups /\ GroupsWellFormed) =>
        /\ result.kind = "return"
        /\ ShouldStyle => result.value = Decorated(request.text, request.ansi_codes)
        /\ ~ShouldStyle => result.value = request.text
        /\ (result.value = Decorated(request.text, request.ansi_codes)) <=> ShouldStyle

\* a call on a non-interactive stdout, force unspecified, FORCE_COLOR false,
\* with a non-empty code set, has returned the text unchanged
C1_Witness ==
    /\ ColorizeDone /\ TextIsStr /\ HasGroups /\ GroupsWellFormed
    /\ Len(DescendAll(request.ansi_codes)) > 0
    /\ ~ForceGiven /\ ~at.FORCE_COLOR /\ ~at.isatty
    /\ result = Return(request.text)

\* C2 as stated: force true at either level (the argument, or FORCE_COLOR)
\* gives the decorated form whatever the other level and isatty() are.
C2_ForceAtEitherLevel ==
    (/\ ColorizeDone /\ TextIsStr /\ HasGroups /\ GroupsWellFormed
     /\ \/ (ForceGiven /\ request.force.v)
        \/ at.FORCE_COLOR)
    => result = Return(Decorated(request.text, request.ansi_codes))

\* C2 (amended): when the force argument is True, or it is not given and
\* FORCE_COLOR is True, the decorated form is returned whatever isatty() is.
C2_EffectiveForce ==
    (/\ ColorizeDone /\ TextIsStr /\ HasGroups /\ GroupsWellFormed
     /\ \/ (ForceGiven /\ request.force.v)
        \/ (~ForceGiven /\ at.FORCE_COLOR))
    => result = Return(Decorated(request.text, request.ansi_codes))

\* FORCE_COLOR alone forces a non-empty code set onto a non-interactive stdout
C2_Witness ==
    /\ ColorizeDone /\ TextIsStr /\ HasGroups /\ GroupsWellFormed
    /\ Len(DescendAll(request.ansi_codes)) > 0
    /\ ~ForceGiven /\ at.FORCE_COLOR /\ ~at.isatty
    /\ result = Return(Decorated(request.text, request.ansi_codes))

\* the specification's example: colorize("x", [A, [B, C]], D)
ExampleGroups ==
    <<PyList(<<PyStr(BOLD), PyList(<<PyStr(RED), PyStr(GREEN)>>)>>), PyStr(BG_BLUE)>>

\* C3: when styling is applied the result is all code strings, argument by
\* argument and depth-first left to right within each, then text, then ESC[0m.
C3_OrderPreserving ==
    /\ (ColorizeDone /\ TextIsStr /\ HasGroups /\ GroupsWellFormed /\ ShouldStyle) =>
          /\ result.kind = "return"
          /\ result.value.t = "str"
          /\ result.value.v =
                Concat(DescendAll(request.ansi_codes)) \o request.text.v \o ResetSequence
    /\ (ColorizeDone /\ TextIsStr /\ ShouldStyle /\ request.ansi_codes = ExampleGroups) =>
          result.value.v = BOLD \o RED \o GREEN \o BG_BLUE \o request.text.v \o RESET

\* the example call has returned A+B+C+D+"x"+RESET
C3_Witness ==
    /\ ColorizeDone /\ ShouldStyle
    /\ request.text = PyStr(<<"x">>)
    /\ request.ansi_codes = ExampleGroups
    /\ result = Return(PyStr(BOLD \o RED \o GREEN \o BG_BLUE \o <<"x">> \o RESET))

\* C5: colorize(text) with no code-group argument returns text unchanged, for
\* every string text, force, FORCE_COLOR and isatty().
C5_NoCodesNoOp ==
    (ColorizeDone /\ TextIsStr /\ ~HasGroups) => result = Return(request.text)

\* colorize("") under a true capability decision has returned ""
C5_Witness ==
    /\ ColorizeDone /\ ~HasGroups /\ ShouldStyle
    /\ request.text = PyStr(<<>>)
    /\ result = Return(PyStr(<<>>))

\* C6: a call whose text is not a string, or whose code groups hold a leaf that
\* is neither a string nor a list/tuple, raises TypeError and returns nothing,
\* whatever force, FORCE_COLOR and isatty() are.
C6_TypeErrorBeforeDecision ==
    (ColorizeDone /\ (~TextIsStr \/ ~GroupsWellFormed)) =>
        /\ result.kind = "raise"
        /\ result.exc = "TypeError"

\* a nested bad leaf has raised TypeError in a call that would otherwise have
\* returned the plain text
C6_Witness ==
    /\ ColorizeDone /\ TextIsStr /\ HasGroups /\ ~GroupsWellFormed /\ ~ShouldStyle
    /\ \E i \in 1..Len(request.ansi_codes) :
          /\ request.ansi_codes[i].t \in {"list", "tuple"}
          /\ Len(Descend(request.ansi_codes[i])) > 0
    /\ result.kind = "raise" /\ result.exc = "TypeError"

FlattenItem == request.item

\* while the loop runs: what is flattened so far, followed by the descent of
\* what is still on the stack (top first), is the descent of the item; and the
\* nodes popped so far and the nodes still below the stack entries are all nodes
C4_LoopInvariant ==
    /\ pc \in {"loop", "done"} =>
          /\ pops + NodeCountAll(stack) = NodeCount(FlattenItem)
          /\ flattened \o DescendAll(Reversed(stack)) = Descend(FlattenItem)
    /\ pc = "done" =>
          /\ result = Return(Descend(FlattenItem))
          /\ pops = NodeCount(FlattenItem)
          /\ WellFormed(FlattenItem)
    /\ pc = "raised" => ~WellFormed(FlattenItem) /\ pops <= NodeCount(FlattenItem)

\* C4: for every finite nested structure the stack loop of _flatten terminates,
\* and for string leaves it visits each node exactly once and returns the
\* sequence of a recursive left-to-right depth-first descent.
C4_FlattenRefinesDescent ==
    /\ []C4_LoopInvariant
    /\ <>(pc = "done" \/ pc = "raised")

\* the loop has flattened (BOLD, [RED, (BG_BLUE,)]) in three levels
C4_Witness ==
    /\ pc = "done"
    /\ FlattenItem =
          PyTuple(<<PyStr(BOLD), PyList(<<PyStr(RED), PyTuple(<<PyStr(BG_BLUE)>>)>>)>>)
    /\ result = Return(<<BOLD, RED, BG_BLUE>>)
    /\ pops = NodeCount(FlattenItem)

-----------------------------------------------------------------------------
(* What the color normalizer's contract says *)

\* the value of each hexadecimal digit
HexDigitValue ==
    [c \in {"0"} |-> 0] @@ [c \in {"1"} |-> 1] @@ [c \in {"2"} |-> 2] @@ [c \in {"3"} |-> 3]
    @@ [c \in {"4"} |-> 4] @@ [c \in {"5"} |-> 5] @@ [c \in {"6"} |-> 6] @@ [c \in {"7"} |-> 7]
    @@ [c \in {"8"} |-> 8] @@ [c \in {"9"} |-> 9]
    @@ [c \in {"a", "A"} |-> 10] @@ [c \in {"b", "B"} |-> 11] @@ [c \in {"c", "C"} |-> 12]
    @@ [c \in {"d", "D"} |-> 13] @@ [c \in {"e", "E"} |-> 14] @@ [c \in {"f", "F"} |-> 15]
HexDigitChars == DOMAIN HexDigitValue

\* the number a string of decimal digits denotes
RECURSIVE DecimalValue(_)
DecimalValue(ds) ==
    IF Len(ds) = 0 THEN 0
    ELSE 10 * DecimalValue(SubSeq(ds, 1, Len(ds) - 1)) + HexDigitValue[ds[Len(ds)]]
DecimalWidth(n) == IF n < 10 THEN 1 ELSE IF n < 100 THEN 2 ELSE 3

PaletteDone == request.op \in {"foreground_256", "background_256"} /\ result.kind # "none"
RgbDone == request.op \in {"foreground_rgb", "background_rgb"} /\ result.kind # "none"
Selector == IF request.op \in {"foreground_256", "foreground_rgb"} THEN <<"3", "8">>
            ELSE <<"4", "8">>

\* the result is ESC[<selector>;5;<decimal digits of i>m
IsPaletteCode(res, i) ==
    /\ res.kind = "return"
    /\ res.value.t = "str"
    /\ LET str == res.value.v
           head == <<ESC, "[">> \o Selector \o <<";", "5", ";">>
           digits == SubSeq(str, Len(head) + 1, Len(str) - 1)
       IN  /\ Len(str) = Len(head) + DecimalWidth(i) + 1
           /\ SubSeq(str, 1, Len(head)) = head
           /\ str[Len(str)] = "m"
           /\ \A k \in 1..Len(digits) : digits[k] \in DOMAIN HexDigitValue
           /\ DecimalValue(digits) = i

\* C7: for every integer i in [0,255] foreground_256(i) is ESC[38;5;{i}m and
\* background_256(i) is ESC[48;5;{i}m; an integer outside [0,255] fails with
\* ValueError, a non-integer with TypeError; both functions accept and reject
\* the same inputs.
C7_PaletteIndex ==
    PaletteDone =>
        LET x == request.color_index
            other == IF request.op = "foreground_256" THEN background_256(x)
                     ELSE foreground_256(x)
        IN  /\ (x.t = "int" /\ 0 <= x.v /\ x.v <= 255) => IsPaletteCode(result, x.v)
            /\ (x.t = "int" /\ (x.v < 0 \/ x.v > 255)) =>
                  result.kind = "raise" /\ result.exc = "ValueError"
            /\ x.t \notin {"int", "bool"} =>
                  result.kind = "raise" /\ result.exc = "TypeError"
            /\ other.kind = result.kind
            /\ result.kind = "raise" => other = result

\* foreground_256(255) has returned ESC[38;5;255m
C7_Witness ==
    /\ PaletteDone
    /\ request.op = "foreground_256"
    /\ request.color_index = PyInt(255)
    /\ result = Return(PyStr(<<ESC, "[", "3", "8", ";", "5", ";", "2", "5", "5", "m">>))

\* a boolean stands in a numeric slot of the call
BooleanInSlot ==
    \/ /\ request.op \in {"foreground_256", "background_256"}
       /\ request.color_index.t = "bool"
    \/ /\ request.op \in {"foreground_rgb", "background_rgb"}
       /\ request.rgb.t \in {"list", "tuple"}
       /\ \E i \in 1..Len(request.rgb.v) : request.rgb.v[i].t = "bool"
    \/ /\ request.op \in {"foreground_rgb", "background_rgb"}
       /\ request.rgb.t \in {"int", "bool"}
       /\ "bool" \in {request.rgb.t, request.green.t, request.blue.t}

\* C8: no call with True or False as the palette index or as the red, green or
\* blue component (triple, list or separate integers) returns an escape code;
\* a boolean that is otherwise in place is refused as a boolean (TypeError).
C8_BooleanRejected ==
    ((PaletteDone \/ RgbDone) /\ BooleanInSlot) =>
        /\ result.kind = "raise"
        /\ request.op \in {"foreground_256", "background_256"} =>
              result = Raise("TypeError", "color_index cannot be a boolean")
        /\ (/\ request.op \in {"foreground_rgb", "background_rgb"}
            /\ request.rgb = PyInt(0) /\ request.green = PyBool(TRUE)
            /\ request.blue.t \notin {"NoneType"}) =>
              result = Raise("TypeError", "green cannot be a boolean")

\* foreground_rgb(0, True, 255) has raised TypeError
C8_Witness ==
    /\ RgbDone
    /\ request.rgb = PyInt(0) /\ request.green = PyBool(TRUE) /\ request.blue = PyInt(255)
    /\ result.kind = "raise" /\ result.exc = "TypeError"

\* the string without one leading '#', if it has one
WithoutHash(str) == IF Len(str) > 0 /\ str[1] = "#" THEN SubSeq(str, 2, Len(str)) ELSE str
AllHexDigits(str) == \A i \in 1..Len(str) : str[i] \in HexDigitChars
\* abc or #abc
IsShorthand(str) == Len(WithoutHash(str)) = 3 /\ AllHexDigits(WithoutHash(str))
\* aabbcc or #aabbcc
IsDoubled(str) ==
    LET h == WithoutHash(str)
    IN  /\ Len(h) = 6 /\ AllHexDigits(h)
        /\ h[1] = h[2] /\ h[3] = h[4] /\ h[5] = h[6]
Triple(r, g, b) == PyTuple(<<PyInt(r), PyInt(g), PyInt(b)>>)
InRange(x) == x.t = "int" /\ 0 <= x.v /\ x.v <= 255

\* C9: abc, #abc, aabbcc and #aabbcc normalize to (17a, 17b, 17c); the tuple
\* (r,g,b), the list [r,g,b] and the separate form r, g, b normalize to (r,g,b).
C9_RepresentationInvariant ==
    RgbDone =>
        LET x == request.rgb
        IN  /\ (x.t = "str" /\ IsShorthand(x.v)) =>
                  LET h == WithoutHash(x.v)
                  IN  normalized = Return(Triple(17 * HexDigitValue[h[1]],
                                                 17 * HexDigitValue[h[2]],
                                                 17 * HexDigitValue[h[3]]))
            /\ (x.t = "str" /\ IsDoubled(x.v)) =>
                  LET h == WithoutHash(x.v)
                  IN  normalized = Return(Triple(17 * HexDigitValue[h[1]],
                                                 17 * HexDigitValue[h[3]],
                                                 17 * HexDigitValue[h[5]]))
            /\ (x.t = "str" /\ x.v \in {<<"#", "F", "F", "8", "8", "0", "0">>,
                                        <<"F", "F", "8", "8", "0", "0">>, <<"F", "8", "0">>}) =>
                  normalized = Return(Triple(255, 136, 0))
            /\ (/\ x.t \in {"list", "tuple"} /\ Len(x.v) = 3
                /\ InRange(x.v[1]) /\ InRange(x.v[2]) /\ InRange(x.v[3])) =>
                  normalized = Return(Triple(x.v[1].v, x.v[2].v, x.v[3].v))
            /\ (InRange(x) /\ InRange(request.green) /\ InRange(request.blue)) =>
                  normalized = Return(Triple(x.v, request.green.v, request.blue.v))

\* "#F80" has been normalized to (255, 136, 0)
C9_Witness ==
    /\ RgbDone
    /\ request.rgb = PyStr(<<"#", "F", "8", "0">>)
    /\ normalized = Return(Triple(255, 136, 0))

\* the 6-character form of a hex string: '#' removed, 3 characters expanded
SixCharForm(str) ==
    LET h == WithoutHash(str)
    IN  IF Len(h) = 3 THEN <<h[1], h[1], h[2], h[2], h[3], h[3]>> ELSE h

\* C10: every hex string whose 6-character form holds a character that is not
\* a hex digit fails ('Invalid hex color format'); equivalently, as stated here,
\* every such string that normalizes successfully consists only of hex digits.
C10_NonHexDigitRejected ==
    (/\ RgbDone /\ request.rgb.t = "str"
     /\ Len(SixCharForm(request.rgb.v)) = 6
     /\ normalized.kind = "return")
    => AllHexDigits(SixCharForm(request.rgb.v))

\* C11: only one optional leading '#' is removed before the length check: '#'+h
\* is treated like h, and a string that is not 3 or 6 characters long once one
\* leading '#' is taken off (two or more '#', characters around the digits)
\* fails with ValueError.
C11_SingleHashOnly ==
    (RgbDone /\ request.rgb.t = "str") =>
        LET h == WithoutHash(request.rgb.v)
        IN  /\ Len(h) \notin {3, 6} =>
                  normalized.kind = "raise" /\ normalized.exc = "ValueError"
            /\ normalized = _normalize_rgb(PyStr(h), request.green, request.blue)

\* the length error of the str branch
LengthError == Raise("ValueError", "Hex color must be 6 characters (RRGGBB)")

\* C12: with one leading '#' removed, a 3-character string is doubled character
\* by character, and a string whose length is then not 6 fails with the error
\* 'must be 6 characters', also when it holds non-hex characters.
C12_LengthCheckFirst ==
    (RgbDone /\ request.rgb.t = "str") =>
        LET h == WithoutHash(request.rgb.v)
        IN  /\ Len(SixCharForm(request.rgb.v)) # 6 => normalized = LengthError
            /\ (Len(h) = 3 /\ AllHexDigits(h)) =>
                  normalized = Return(Triple(17 * HexDigitValue[h[1]],
                                             17 * HexDigitValue[h[2]],
                                             17 * HexDigitValue[h[3]]))

SequenceArityError == Raise("ValueError", "RGB sequence must have exactly 3 values")
MissingComponentsError ==
    Raise("ValueError", "When providing a single integer, green and blue must also be provided")

\* C13: a list or tuple whose length is not 3 fails with ValueError 'must have
\* exactly 3 values', and an integer first argument (a bool included, as the
\* code sees it) with green or blue absent fails with ValueError 'green and blue
\* must also be provided', whatever the components that were supplied are.
C13_ArityBeforeComponents ==
    RgbDone =>
        LET x == request.rgb
        IN  /\ (x.t \in {"list", "tuple"} /\ Len(x.v) # 3) =>
                  normalized = SequenceArityError /\ result = SequenceArityError
            /\ (/\ x.t \in {"int", "bool"}
                /\ "NoneType" \in {request.green.t, request.blue.t}) =>
                  normalized = MissingComponentsError /\ result = MissingComponentsError

\* an out-of-range red with a boolean green and no blue has raised the arity error
C13_Witness ==
    /\ RgbDone
    /\ request.rgb = PyInt(256) /\ request.green = PyBool(TRUE) /\ request.blue = PyNone
    /\ result = MissingComponentsError

\* a two-element tuple of an out-of-range value and a boolean has raised the
\* arity error
C13_WitnessSequence ==
    /\ RgbDone
    /\ request.rgb = PyTuple(<<PyInt(256), PyBool(TRUE)>>)
    /\ result = SequenceArityError

ComponentNames == <<"red", "green", "blue">>

\* what is wrong with one raw component, in the order boolean, non-integer,
\* out of range
Fault(value) ==
    IF value.t = "bool" THEN "boolean"
    ELSE IF value.t # "int" THEN "type"
    ELSE IF value.v < 0 \/ value.v > 255 THEN "range"
    ELSE "none"

FaultError(name, fault) ==
    IF fault = "boolean" THEN Raise("TypeError", name \o " cannot be a boolean")
    ELSE IF fault = "type" THEN Raise("TypeError", name \o " must be an integer")
    ELSE Raise("ValueError", name \o " must be between 0 and 255")

\* the three raw components of a call that supplies three, by the triple path
\* or by the separate-components path
HasRawComponents ==
    \/ request.rgb.t \in {"list", "tuple"} /\ Len(request.rgb.v) = 3
    \/ /\ request.rgb.t \in {"int", "bool"}
       /\ "NoneType" \notin {request.green.t, request.blue.t}
RawComponents ==
    IF request.rgb.t \in {"list", "tuple"} THEN request.rgb.v
    ELSE <<request.rgb, request.green, request.blue>>

\* C14: the three raw components are validated in the order red, green, blue,
\* each for boolean, then non-integer, then out of [0,255]; the error raised is
\* the one of the first failing component and names it, whatever is wrong with
\* the later ones.
C14_FirstFailureReported ==
    (RgbDone /\ HasRawComponents) =>
        LET c == RawComponents
            failing == {i \in 1..3 : Fault(c[i]) # "none"}
        IN  /\ failing # {} =>
                  LET first == CHOOSE i \in failing : \A j \in failing : i <= j
                  IN  /\ normalized = FaultError(ComponentNames[first], Fault(c[first]))
                      /\ result = normalized
            /\ failing = {} => normalized.kind = "return"

\* (0, 256, True) has raised the range error of green, not the boolean error
\* of blue
C14_Witness ==
    /\ RgbDone
    /\ request.rgb = PyTuple(<<PyInt(0), PyInt(256), PyBool(TRUE)>>)
    /\ result = Raise("ValueError", "green must be between 0 and 255")

InvalidInputError == Raise("TypeError", "Invalid RGB input")
HexPathErrors ==
    {LengthError, Raise("ValueError", "Invalid hex color format"),
     Raise("ValueError", "red must be between 0 and 255"),
     Raise("ValueError", "green must be between 0 and 255"),
     Raise("ValueError", "blue must be between 0 and 255")}

\* C15: the first argument alone decides the path: a string is read as hex, a
\* list or tuple as a triple and an integer as the red of three separate
\* components, each with the outcome green and blue cannot change where the
\* path does not use them; any other first argument fails with TypeError
\* 'Invalid RGB input', whatever green and blue are.
C15_ShapeDispatch ==
    RgbDone =>
        LET x == request.rgb
        IN  /\ x.t \notin {"str", "list", "tuple", "int", "bool"} =>
                  normalized = InvalidInputError /\ result = InvalidInputError
            /\ x.t \in {"str", "list", "tuple", "int", "bool"} =>
                  normalized # InvalidInputError
            /\ x.t = "str" =>
                  /\ normalized = _normalize_rgb(x, PyNone, PyNone)
                  /\ normalized.kind = "raise" => normalized \in HexPathErrors
            /\ x.t \in {"list", "tuple"} =>
                  /\ normalized = _normalize_rgb(x, PyNone, PyNone)
                  /\ Len(x.v) # 3 => normalized = SequenceArityError
                  /\ Len(x.v) = 3 => normalized = ValidateComponents(x.v[1], x.v[2], x.v[3])
            /\ x.t \in {"int", "bool"} =>
                  \/ normalized = MissingComponentsError
                  \/ normalized = ValidateComponents(x, request.green, request.blue)

\* a mapping passed with valid green and blue has raised 'Invalid RGB input'
C15_Witness ==
    /\ RgbDone
    /\ request.rgb = [t |-> "dict", v |-> <<>>] /\ request.green = PyInt(0) /\ request.blue = PyInt(255)
    /\ result = InvalidInputError

DecimalChars == {"0", "1", "2", "3", "4", "5", "6", "7", "8", "9"}

\* the fields of a string between separators
RECURSIVE SplitOn(_, _, _)
SplitOn(str, sep, field) ==
    IF Len(str) = 0 THEN <<field>>
    ELSE IF Head(str) = sep THEN <<field>> \o SplitOn(Tail(str), sep, <<>>)
    ELSE SplitOn(Tail(str), sep, Append(field, Head(str)))

\* a decimal numeral without sign or leading zero, denoting a value in [0,255]
IsByteNumeral(ds) ==
    /\ Len(ds) \in 1..3
    /\ \A k \in 1..Len(ds) : ds[k] \in DecimalChars
    /\ Len(ds) > 1 => ds[1] # "0"
    /\ DecimalValue(ds) \in 0..255

\* str is ESC[<selector>;2;<r>;<g>;<b>m for byte numerals r, g, b
IsTruecolorCode(str, selector) ==
    /\ Len(str) >= 3
    /\ str[1] = ESC /\ str[2] = "[" /\ str[Len(str)] = "m"
    /\ LET fields == SplitOn(SubSeq(str, 3, Len(str) - 1), ";", <<>>)
       IN  /\ Len(fields) = 5
           /\ fields[1] = selector /\ fields[2] = <<"2">>
           /\ \A k \in 3..5 : IsByteNumeral(fields[k])
TruecolorFields(str) == SplitOn(SubSeq(str, 3, Len(str) - 1), ";", <<>>)

\* C16: whenever foreground_rgb or background_rgb returns, the result is
\* ESC[38;2;r;g;bm (respectively ESC[48;2;r;g;bm) for true integers r, g, b in
\* [0,255], the normalized triple; and the two functions accept and reject the
\* same inputs, with the same error, and differ only in 38 against 48.
C16_TruecolorCode ==
    RgbDone =>
        LET other == IF request.op = "foreground_rgb"
                     THEN background_rgb(request.rgb, request.green, request.blue)
                     ELSE foreground_rgb(request.rgb, request.green, request.blue)
            otherSelector == IF request.op = "foreground_rgb" THEN <<"4", "8">>
                             ELSE <<"3", "8">>
        IN  /\ result.kind = "return" =>
                  /\ result.value.t = "str"
                  /\ IsTruecolorCode(result.value.v, Selector)
                  /\ LET f == TruecolorFields(result.value.v)
                     IN  normalized = Return(Triple(DecimalValue(f[3]), DecimalValue(f[4]),
                                                    DecimalValue(f[5])))
                  /\ other.kind = "return"
                  /\ IsTruecolorCode(other.value.v, otherSelector)
                  /\ SubSeq(TruecolorFields(other.value.v), 2, 5)
                        = SubSeq(TruecolorFields(result.value.v), 2, 5)
            /\ result.kind = "raise" => other = result /\ normalized = result

\* background_rgb("#FF8800") has returned ESC[48;2;255;136;0m
C16_Witness ==
    /\ RgbDone
    /\ request.op = "background_rgb"
    /\ request.rgb = PyStr(<<"#", "F", "F", "8", "8", "0", "0">>)
    /\ result = Return(PyStr(<<ESC, "[", "4", "8", ";", "2", ";",
                               "2", "5", "5", ";", "1", "3", "6", ";", "0", "m">>))

-----------------------------------------------------------------------------
(* Calls over time: the force flag, the terminal, and side effects *)

\* the capability decision under a given flag value and terminal answer
StyleUnder(flag, tty) == (IF ForceGiven THEN request.force.v ELSE flag) \/ tty
\* what a well-formed call with code groups returns under them
OutcomeUnder(flag, tty) ==
    Return(IF StyleUnder(flag, tty) THEN Decorated(request.text, request.ansi_codes)
           ELSE request.text)
\* a step that is a call, not an assignment to the flag or a change of terminal
CallStep == FORCE_COLOR' = FORCE_COLOR /\ isatty' = isatty
WellFormedCall == request.op = "colorize" /\ TextIsStr /\ HasGroups /\ GroupsWellFormed

\* C17: under any interleaving of assignments to FORCE_COLOR and colorize
\* calls, every call returns what the flag value at the moment of that call
\* decides, whatever earlier calls returned under earlier values, and an
\* assignment leaves the result already returned as it is.
C17_FlagReadAtEachCall ==
    [][/\ (FORCE_COLOR' # FORCE_COLOR) => (result' = result /\ at' = at)
       /\ (CallStep /\ WellFormedCall) => result' = OutcomeUnder(FORCE_COLOR, isatty)]_vars

\* on a non-interactive stdout a call made while the flag was True returned the
\* decorated string, and the flag, False since, has not changed it
C17_Witness ==
    /\ ColorizeDone /\ TextIsStr /\ HasGroups /\ GroupsWellFormed /\ ~ForceGiven
    /\ Len(DescendAll(request.ansi_codes)) > 0
    /\ at.FORCE_COLOR /\ ~at.isatty
    /\ ~FORCE_COLOR /\ ~isatty
    /\ result = Return(Decorated(request.text, request.ansi_codes))

\* a core operation has completed, by a return or by an exception
CoreCallDone == result.kind # "none"

\* C18: no step of colorize, _flatten, foreground_256, background_256,
\* foreground_rgb or background_rgb changes Kolyre.FORCE_COLOR, writes to the
\* output stream, or changes the arguments the caller passed, whether the call
\* returns or raises.
C18_CoreIsReadOnly ==
    [][/\ FORCE_COLOR' = FORCE_COLOR
       /\ stdout' = stdout
       /\ request' = request
       /\ isatty' = isatty]_vars

\* a colorize call given force=True has raised TypeError on a bad leaf while
\* FORCE_COLOR was False, and FORCE_COLOR is False still, with nothing written
C18_Witness ==
    /\ ColorizeDone /\ HasGroups /\ ~GroupsWellFormed
    /\ request.force = PyBool(TRUE)
    /\ result.kind = "raise"
    /\ ~at.FORCE_COLOR /\ ~FORCE_COLOR
    /\ stdout = <<>>

\* force if given, else the flag
ForceUnder(flag) == IF ForceGiven THEN request.force.v ELSE flag

\* C19 as stated: every colorize call with at least one code group whose
\* effective force is false queries isatty() exactly once, and a call whose
\* effective force is true does not query it.
C19_QueriedOncePerCall ==
    (ColorizeDone /\ HasGroups) =>
        /\ ~ForceUnder(at.FORCE_COLOR) => queries = 1
        /\ ForceUnder(at.FORCE_COLOR) => queries = 0

\* C19 (amended): a colorize call with a string text and at least one code
\* group, all leaves strings, queries isatty() exactly once when its effective
\* force is false and returns what the answer at that moment decides, whatever
\* an earlier call was answered; it does not query isatty() when its effective
\* force is true; and a call that raises TypeError does not query it either.
C19_FreshQuery ==
    [][(CallStep /\ request.op = "colorize") =>
          /\ (WellFormedCall /\ ~ForceUnder(FORCE_COLOR)) =>
                /\ queries' = 1
                /\ result' = Return(IF isatty THEN Decorated(request.text, request.ansi_codes)
                                    ELSE request.text)
          /\ (WellFormedCall /\ ForceUnder(FORCE_COLOR)) =>
                /\ queries' = 0
                /\ result' = Return(Decorated(request.text, request.ansi_codes))
          /\ (~TextIsStr \/ ~GroupsWellFormed) =>
                queries' = 0 /\ result'.kind = "raise"]_vars

\* an unforced call on a terminal has asked isatty() once and returned the
\* decorated string; stdout has left the terminal since
C19_Witness ==
    /\ ColorizeDone /\ TextIsStr /\ HasGroups /\ GroupsWellFormed
    /\ Len(DescendAll(request.ansi_codes)) > 0
    /\ ~ForceUnder(at.FORCE_COLOR)
    /\ at.isatty /\ ~isatty
    /\ queries = 1
    /\ result = Return(Decorated(request.text, request.ansi_codes))

RECURSIVE HoldsIntTriple(_)
\* the structure is, or holds at some depth, a list or tuple of three integers
HoldsIntTriple(node) ==
    /\ node.t \in {"list", "tuple"}
    /\ \/ Len(node.v) = 3 /\ \A i \in 1..3 : node.v[i].t = "int"
       \/ \E i \in 1..Len(node.v) : HoldsIntTriple(node.v[i])

\* an argument is a list or tuple of exactly three strings
HasStringTriple ==
    \E i \in 1..Len(request.ansi_codes) :
        /\ request.ansi_codes[i].t \in {"list", "tuple"}
        /\ Len(request.ansi_codes[i].v) = 3
        /\ \A k \in 1..3 : request.ansi_codes[i].v[k].t = "str"

\* C20: colorize traverses every list or tuple as a group of codes, whatever
\* its length and depth: a group of three integers, as an argument or nested,
\* is not read as an (r,g,b) color but fails with TypeError, and a group of
\* three strings contributes its three strings in order like any other group.
C20_GroupsNeverColors ==
    (ColorizeDone /\ TextIsStr /\ HasGroups) =>
        /\ (\E i \in 1..Len(request.ansi_codes) : HoldsIntTriple(request.ansi_codes[i])) =>
              result.kind = "raise" /\ result.exc = "TypeError"
        /\ (HasStringTriple /\ GroupsWellFormed /\ ShouldStyle) =>
              result = Return(Decorated(request.text, request.ansi_codes))
        /\ result.kind = "return" =>
              result.value \in {request.text, Decorated(request.text, request.ansi_codes)}

\* colorize("x", (1, 2, 3)) under a true capability decision has raised TypeError
C20_Witness ==
    /\ ColorizeDone /\ ShouldStyle
    /\ request.text = PyStr(<<"x">>)
    /\ request.ansi_codes = <<PyTuple(<<PyInt(1), PyInt(2), PyInt(3)>>)>>
    /\ result.kind = "raise" /\ result.exc = "TypeError"

-----------------------------------------------------------------------------
(* What is said of enable_ansi_support *)

AnsiCallDone ==
    request.op = "enable_ansi_support" /\ console # Idle /\ console.pc = "done"
OnWin32 == request.platform = "win32"
HandleValid == request.GetStdHandle.kind = "return" /\ request.GetStdHandle.value \notin {0, -1}
GetModeSucceeds == request.GetConsoleMode.kind = "return" /\ request.GetConsoleMode.value # 0
SetModeSucceeds == request.SetConsoleMode.kind = "return" /\ request.SetConsoleMode.value # 0
AllSucceed ==
    request.ctypes = "ok" /\ HandleValid /\ GetModeSucceeds /\ SetModeSucceeds

\* what stops the call on win32: the first step that does not succeed
FirstFailure ==
    IF request.ctypes # "ok" THEN Raise(request.ctypes, "ctypes")
    ELSE IF ~HandleValid THEN request.GetStdHandle
    ELSE IF ~GetModeSucceeds THEN request.GetConsoleMode
    ELSE request.SetConsoleMode
\* ImportError, an invalid handle, a failing GetConsoleMode or SetConsoleMode,
\* or AttributeError/OSError raised by the API (an exception of a subclass,
\* such as PermissionError, is one of its base class too)
ListedFailure ==
    \/ FirstFailure.kind = "return"
    \/ issubclass(FirstFailure.exc, {"ImportError", "AttributeError", "OSError"})

\* C21: enable_ansi_support returns True on every platform but win32; on win32
\* it returns True iff ctypes imports, GetStdHandle gives a handle other than 0
\* and -1, GetConsoleMode succeeds and SetConsoleMode succeeds; on ImportError,
\* an invalid handle, a failing GetConsoleMode or SetConsoleMode, or an
\* AttributeError/OSError from the API it returns False and does not raise.
C21_AnsiSupportResult ==
    AnsiCallDone =>
        /\ ~OnWin32 => result = Return(PyBool(TRUE))
        /\ OnWin32 => (result = Return(PyBool(TRUE)) <=> AllSucceed)
        /\ (OnWin32 /\ ~AllSucceed /\ ListedFailure) => result = Return(PyBool(FALSE))

\* on win32, with a valid handle, GetConsoleMode raised OSError and the call
\* returned False
C21_Witness ==
    /\ AnsiCallDone /\ OnWin32
    /\ request.ctypes = "ok" /\ HandleValid
    /\ request.GetConsoleMode = Raise("OSError", "api")
    /\ result = Return(PyBool(FALSE))

ApiOrder == <<"GetStdHandle", "GetConsoleMode", "SetConsoleMode">>
\* the names of the console API calls made so far, in order
CallNames == [i \in 1..Len(console.calls) |-> console.calls[i][1]]
\* the mode with the virtual-terminal bit (value 4) set
WithVirtualTerminal(mode) == IF (mode \div 4) % 2 = 1 THEN mode ELSE mode + 4

\* C23: in one enable_ansi_support call the console API is a one-shot protocol:
\* GetStdHandle, GetConsoleMode, SetConsoleMode are each called at most once and
\* in that order; GetConsoleMode only after GetStdHandle gave a valid handle,
\* SetConsoleMode only after GetConsoleMode succeeded; only a successful
\* SetConsoleMode changes the console mode; off win32 none of them is called.
C23_OneShotProtocol ==
    (request.op = "enable_ansi_support" /\ console # Idle) =>
        /\ Len(console.calls) <= 3
        /\ CallNames = SubSeq(ApiOrder, 1, Len(console.calls))
        /\ Len(console.calls) >= 1 =>
              OnWin32 /\ request.ctypes = "ok" /\ console.calls[1][2] = -11
        /\ Len(console.calls) >= 2 =>
              HandleValid /\ console.calls[2][2] = request.GetStdHandle.value
        /\ Len(console.calls) >= 3 =>
              /\ GetModeSucceeds
              /\ console.calls[3][2] = request.GetStdHandle.value
              /\ console.calls[3][3] = WithVirtualTerminal(request.mode)
        /\ console.mode # request.mode =>
              /\ Len(console.calls) = 3 /\ SetModeSucceeds
              /\ console.mode = WithVirtualTerminal(request.mode)
        /\ console.pc # "done" => Len(console.calls) < 3

\* SetConsoleMode failed after the two calls before it succeeded: three calls
\* were made, none again, the mode is as it was and the call returned False
C23_Witness ==
    /\ AnsiCallDone /\ OnWin32
    /\ CallNames = ApiOrder
    /\ request.SetConsoleMode = Return(0)
    /\ console.mode = request.mode
    /\ result = Return(PyBool(FALSE))

-----------------------------------------------------------------------------
(* What is said of the code registry *)

\* the documented number of every style constant
StyleNumbers ==
    [RESET |-> 0, BOLD |-> 1, DIM |-> 2, ITALIC |-> 3, UNDERLINE |-> 4,
     DOUBLE_UNDERLINE |-> 21, REVERSED |-> 7, HIDDEN |-> 8, STRIKETHROUGH |-> 9,
     OVERLINE |-> 53, RESET_BOLD_DIM |-> 22, RESET_ITALIC |-> 23,
     RESET_UNDERLINE |-> 24, RESET_REVERSED |-> 27, RESET_HIDDEN |-> 28,
     RESET_STRIKETHROUGH |-> 29, RESET_OVERLINE |-> 55, RESET_FOREGROUND |-> 39,
     RESET_BACKGROUND |-> 49]

\* the documented foreground number of every color name
ColorNumbers ==
    [BLACK |-> 30, RED |-> 31, GREEN |-> 32, YELLOW |-> 33, BLUE |-> 34,
     MAGENTA |-> 35, CYAN |-> 36, WHITE |-> 37,
     BRIGHT_BLACK |-> 90, BRIGHT_RED |-> 91, BRIGHT_GREEN |-> 92,
     BRIGHT_YELLOW |-> 93, BRIGHT_BLUE |-> 94, BRIGHT_MAGENTA |-> 95,
     BRIGHT_CYAN |-> 96, BRIGHT_WHITE |-> 97]

\* the number the class's documentation gives the name, -1 when it has none
DocumentedNumber(class, name) ==
    CASE class = "Style" /\ name \in DOMAIN StyleNumbers -> StyleNumbers[name]
      [] class = "Foreground" /\ name \in DOMAIN ColorNumbers -> ColorNumbers[name]
      [] class = "Background" /\ name \in DOMAIN ColorNumbers -> ColorNumbers[name] + 10
      [] OTHER -> -1

\* outcome is the string ESC [ n m, n written in decimal without padding
IsSgrCode(outcome, n) ==
    /\ outcome.kind = "return"
    /\ outcome.value.t = "str"
    /\ LET s == outcome.value.v
       IN  /\ Len(s) >= 4
           /\ s[1] = ESC /\ s[2] = "[" /\ s[Len(s)] = "m"
           /\ LET digits == SubSeq(s, 3, Len(s) - 1)
              IN  /\ \A k \in 1..Len(digits) : digits[k] \in DecimalChars
                  /\ Len(digits) > 1 => digits[1] # "0"
                  /\ DecimalValue(digits) = n

RegistryRead == request.op = "getattr" /\ result # NoResult

\* C22: a constant read from Style, Foreground or Background is ESC[{n}m with
\* the documented n; a name is a constant of Foreground exactly when it is one
\* of Background, there are 16 of them, Foreground numbers lie in 30..37 and
\* 90..97 and the Background number is the Foreground number plus 10; RESET
\* is ESC[0m; and no other constant of the same class has the same value.
C22_RegistryBitExact ==
    RegistryRead =>
        LET n == DocumentedNumber(request.class, request.name)
        IN  /\ Cardinality(DOMAIN ColorNumbers) = 16
            /\ (result.kind = "return") = (n # -1)
            /\ n # -1 => IsSgrCode(result, n)
            /\ request.class = "Foreground" /\ n # -1 => n \in (30..37) \cup (90..97)
            /\ request.class = "Background" /\ n # -1 =>
                   /\ n \in (40..47) \cup (100..107)
                   /\ IsSgrCode(getattr("Foreground", request.name), n - 10)
            /\ request.class = "Foreground" =>
                   (result.kind = "return")
                       = (getattr("Background", request.name).kind = "return")
            /\ request.class = "Style" /\ request.name = "RESET" =>
                   result = Return(PyStr(<<ESC, "[", "0", "m">>))
            /\ \A other \in RegistryRequests :
                   /\ other.class = request.class
                   /\ other.name # request.name
                   /\ result.kind = "return"
                   => getattr(other.class, other.name) # result

\* a bright background color has been read: three digits, ten above the foreground
C22_Witness ==
    /\ RegistryRead
    /\ request.class = "Background"
    /\ request.name = "BRIGHT_WHITE"
    /\ result = Return(PyStr(<<ESC, "[", "1", "0", "7", "m">>))

-----------------------------------------------------------------------------
(* What is said of groups that hold no code *)

\* the supplied groups are well formed and hold no code string at all
GroupsHoldNoCode == GroupsWellFormed /\ Len(DescendAll(request.ansi_codes)) = 0

\* C24: a colorize call returns its text unchanged only when it was given no
\* code-group argument or the capability decision is false; a call given at
\* least one code-group argument under a true decision, when it returns,
\* returns codes + text + ESC[0m, which is the text followed by ESC[0m, and
\* not the text, when every supplied group flattens to no code.
C24_PlainOnlyWithoutGroupsOrDecision ==
    ColorizeDone =>
        /\ result = Return(request.text) => (~HasGroups \/ ~ShouldStyle)
        /\ (HasGroups /\ ShouldStyle /\ TextIsStr /\ GroupsWellFormed) =>
               /\ result = Return(Decorated(request.text, request.ansi_codes))
               /\ result # Return(request.text)
        /\ (HasGroups /\ ShouldStyle /\ result.kind = "return") =>
               result.value = Decorated(request.text, request.ansi_codes)
        /\ (HasGroups /\ ShouldStyle /\ TextIsStr /\ GroupsHoldNoCode) =>
               result = Return(PyStr(request.text.v \o ResetSequence))

\* colorize("x", ((),)) under a true decision has returned "x" + ESC[0m
C24_Witness ==
    /\ ColorizeDone /\ ShouldStyle
    /\ request.text = PyStr(<<"x">>)
    /\ request.ansi_codes = <<PyTuple(<<PyTuple(<<>>)>>)>>
    /\ result = Return(PyStr(<<"x", ESC, "[", "0", "m">>))

-----------------------------------------------------------------------------
(* What is said of green and blue next to a hex string or a sequence *)

\* values for green and blue: one absent, both valid, a boolean with an
\* out-of-range integer, a string with a negative integer
OtherGreenBlue ==
    {<<PyInt(0), PyNone>>, <<PyInt(0), PyInt(255)>>, <<PyInt(256), PyBool(TRUE)>>,
     <<PyStr(<<"2">>), PyInt(-1)>>}

\* the same call with other values for green and blue
SameCallWith(g, b) ==
    IF request.op = "foreground_rgb" THEN foreground_rgb(request.rgb, g, b)
    ELSE background_rgb(request.rgb, g, b)

\* C25: when the first argument of foreground_rgb or background_rgb is a string
\* or a list/tuple, the call returns the same code, or raises the same error,
\* for every green and blue, valid or not, as it does with both omitted.
C25_GreenBlueHaveNoInfluence ==
    (RgbDone /\ request.rgb.t \in {"str", "list", "tuple"}) =>
        /\ result = SameCallWith(PyNone, PyNone)
        /\ \A gb \in OtherGreenBlue : SameCallWith(gb[1], gb[2]) = result

\* '#F80' passed with green True and blue 256 has given the code of '#F80'
C25_Witness ==
    /\ RgbDone
    /\ request.op = "foreground_rgb"
    /\ request.rgb = PyStr(<<"#", "F", "8", "0">>)
    /\ request.green = PyBool(TRUE) /\ request.blue = PyInt(256)
    /\ result = Return(PyStr(<<ESC, "[", "3", "8", ";", "2", ";", "2", "5", "5", ";",
                               "1", "3", "6", ";", "0", "m">>))

\* a list holding an invalid component, passed with valid green and blue, has
\* raised the error of the list
C25_WitnessSequence ==
    /\ RgbDone
    /\ request.rgb.t = "list"
    /\ request.green # PyNone
    /\ result.kind = "raise"

-----------------------------------------------------------------------------
(* What is said of a call made while another thread assigns the flag *)

ThreadDone == request.op = "colorize" /\ thread.pc = "done"

\* the codes alone before the text, and the reset sequence alone after it
CodesWithoutReset == PyStr(Concat(DescendAll(request.ansi_codes)) \o request.text.v)
ResetWithoutCodes == PyStr(request.text.v \o ResetSequence)

\* C26: while another thread assigns FORCE_COLOR at any point of a colorize
\* call, the call reads the flag at most once; what it returns is the text
\* unchanged or codes + text + ESC[0m, the outcome of the same call made under
\* one of the values the flag held during the call, and never the codes without
\* the reset or the reset without the codes.
C26_AtomicUnderFlagWrites ==
    /\ thread.pc # "idle" => thread.reads <= 1
    /\ ThreadDone =>
          /\ result.kind = "return" =>
                 result.value \in {request.text,
                                   Decorated(request.text, request.ansi_codes)}
          /\ \E f \in thread.held :
                 result = colorize(request.text, request.ansi_codes, request.force,
                                   f, isatty)
          /\ (TextIsStr /\ HasGroups /\ GroupsWellFormed) =>
                 \E f \in thread.held : result = OutcomeUnder(f, isatty)
          /\ (TextIsStr /\ GroupsWellFormed
              /\ Len(DescendAll(request.ansi_codes)) > 0) =>
                 /\ result # Return(CodesWithoutReset)
                 /\ result # Return(ResetWithoutCodes)

\* on a non-interactive stdout a call has read the flag while it was True and
\* returned the decorated string; the flag was False when the call began and
\* is False again
C26_Witness ==
    /\ ThreadDone /\ TextIsStr /\ HasGroups /\ GroupsWellFormed
    /\ Len(DescendAll(request.ansi_codes)) > 0
    /\ ~ForceGiven /\ ~isatty
    /\ thread.reads = 1
    /\ thread.held = {TRUE, FALSE}
    /\ ~FORCE_COLOR
    /\ result = Return(Decorated(request.text, request.ansi_codes))

-----------------------------------------------------------------------------
(* What is said of the demo's main() *)

DemoCalled == request.op = "main"
\* line 429 is reached: Demo.run is about to be called, or has returned
RunReached == DemoCalled /\ demo.pc \in {"run", "returned"}
DemoExited == DemoCalled /\ demo.pc = "exit"
DemoEnded == DemoCalled /\ demo.pc \in {"returned", "exit"}

\* what the command line held
Argv == request.argv
\* an RGB option was written on the command line
RgbOptionUsed ==
    Argv.rgb_step # PyNone \/ Argv.rgb_block_fg # PyNone \/ Argv.rgb_block_bg # PyNone
\* an RGB option main() can tell from its default: a step other than 51, or a block
RgbOptionSeen ==
    \/ Argv.rgb_step \notin {PyNone, PyInt(51)}
    \/ Argv.rgb_block_fg # PyNone
    \/ Argv.rgb_block_bg # PyNone
RgbSelected == Argv.rgb \/ Argv.all
SomeDemoSelected ==
    Argv.all \/ Argv.styles \/ Argv.palette16 \/ Argv.palette256 \/ Argv.rgb
\* the step the gradient would run with
StepInForce == IF Argv.rgb_step = PyNone THEN 51 ELSE Argv.rgb_step.v
\* what enable_ansi_support() answered on this host
AnsiAnswer == enable_ansi_support(request.env) = Return(PyBool(TRUE))

\* C27 as stated: Demo.run is reached only when --version was not given, no
\* RGB option was used without --rgb or --all, a demo is selected, rgb_step is
\* in [1,255] if the RGB demo is selected, and ANSI is supported or --force
\* given; and when enable_ansi_support() returns False without --force the
\* process exits with status 1 and renders nothing.
C27_RunOnlyAfterEveryCheck ==
    /\ RunReached =>
          /\ ~Argv.version
          /\ ~(RgbOptionUsed /\ ~RgbSelected)
          /\ SomeDemoSelected
          /\ RgbSelected => StepInForce \in 1..255
          /\ AnsiAnswer \/ Argv.force
    /\ (DemoCalled /\ demo.pc # "enable" /\ ~AnsiAnswer /\ ~Argv.force) =>
          /\ ~RunReached
          /\ demo.calls = <<>>
          /\ Len(stdout) <= 1
          /\ DemoEnded => (DemoExited /\ demo.status = 1)

\* C27 (amended): Demo.run is reached only when --version was not given, no
\* RGB option that main() can tell from its default (a step other than 51, a
\* block) came without --rgb or --all, a demo is selected, rgb_step is in
\* [1,255] if the RGB demo is selected, and ANSI is supported or --force given;
\* when enable_ansi_support() returns False without --force the process exits
\* and renders nothing, with status 0 if --version was given or, no RGB option
\* being seen, no demo is selected, and with status 1 otherwise.
C27_RunGuarded ==
    /\ RunReached =>
          /\ ~Argv.version
          /\ ~(RgbOptionSeen /\ ~RgbSelected)
          /\ SomeDemoSelected
          /\ RgbSelected => StepInForce \in 1..255
          /\ AnsiAnswer \/ Argv.force
    /\ (DemoCalled /\ demo.pc # "enable" /\ ~AnsiAnswer /\ ~Argv.force) =>
          /\ ~RunReached
          /\ demo.calls = <<>>
          /\ Len(stdout) <= 1
          /\ DemoEnded =>
                /\ DemoExited
                /\ demo.status =
                      IF Argv.version THEN 0
                      ELSE IF RgbOptionSeen /\ ~RgbSelected THEN 1
                      ELSE IF ~SomeDemoSelected THEN 0
                      ELSE 1

\* on a Windows console that refuses the mode, without --force, a valid RGB
\* demo request has printed the failure and exited with status 1
C27_Witness ==
    /\ DemoExited /\ demo.status = 1
    /\ request.env.platform = "win32" /\ ~AnsiAnswer
    /\ ~Argv.force /\ ~Argv.version /\ Argv.rgb /\ Argv.rgb_step = PyInt(255)
    /\ stdout = <<PyStr(Messages.failed.v \o <<"\n">>)>>
    /\ demo.calls = <<>>

\* --styles --rgb-step 51 has run the styles demo: after the support message
\* come the header and the three rows of the grid
C27_WitnessDefaultStep ==
    /\ RunReached /\ demo.pc = "returned"
    /\ Argv.styles /\ ~RgbSelected /\ Argv.rgb_step = PyInt(51)
    /\ ~Argv.palette16 /\ ~Argv.palette256
    /\ Len(demo.calls) > 0
    /\ Len(stdout) = 5

\* C28: --force sets Kolyre.FORCE_COLOR and ansi_supported to True before any
\* check, so at the final support check, and at every check before it,
\* ansi_supported is true whenever args.force is; 'Continuing with --force.'
\* is never printed.
C28_ForceImpliesSupported ==
    DemoCalled =>
        /\ (demo.pc \notin {"enable", "force"} /\ demo.args.force) =>
               (FORCE_COLOR /\ demo.ansi_supported)
        /\ (demo.pc = "support" /\ demo.args.force) => demo.ansi_supported
        /\ \A i \in 1..Len(stdout) : \A k \in 1..Len(stdout[i].v) :
               stdout[i].v[k] # Messages.continuing.v[1]

\* with --force on a console that refuses the mode the support check has
\* printed 'ANSI terminal support enabled.' and Demo.run is next
C28_Witness ==
    /\ DemoCalled /\ demo.pc = "run"
    /\ Argv.force /\ ~AnsiAnswer
    /\ request.env.platform = "win32"
    /\ stdout = <<PyStr(Decorated(Messages.enabled,
                                   <<PyStr(Style.BOLD), PyStr(Foreground.BRIGHT_GREEN)>>).v
                         \o <<"\n">>)>>

-----------------------------------------------------------------------------
(* What is said of the demo's loops *)

LoopRequested == request.op \in {"render_rgb_gradient", "render_256_palette"}
RenderStarted == LoopRequested /\ demo # Idle
GradientStarted == RenderStarted /\ request.op = "render_rgb_gradient"
PaletteStarted == RenderStarted /\ request.op = "render_256_palette"
RenderReturned == RenderStarted /\ demo.pc = "returned"

\* ceil(a / b)
CeilDiv(a, b) == (a + b - 1) \div b
\* ceil(256 / rgb_step) ^ 3
GradientCells ==
    LET axis == CeilDiv(256, request.rgb_step) IN axis * axis * axis

\* in every state of a renderer's run: components and indices within 0..255,
\* no color call has raised, and no more cells than the loops have
RenderInRange ==
    /\ RenderStarted => (demo.pc # "raised" /\ result.kind # "raise")
    /\ GradientStarted =>
          /\ request.rgb_step \in 1..255
          /\ demo.red_value \in 0..255
          /\ demo.green_value \in 0..255
          /\ demo.blue_value \in 0..255
          /\ demo.count <= GradientCells
          /\ demo.pc \in {"done", "returned"} => demo.count = GradientCells
          /\ demo.pc = "cell" => demo.count < GradientCells
    /\ PaletteStarted =>
          /\ demo.color_index \in 0..255
          /\ demo.pc \in {"done", "returned"} => demo.count = 256
          /\ demo.pc = "cell" => demo.count = demo.color_index

\* C29: for every rgb_step main() lets through, each cell of
\* render_rgb_gradient has its three components in [0,255] and the
\* foreground_rgb/background_rgb call does not raise; render_256_palette passes
\* only 0..255 to foreground_256/background_256; and the gradient loops end
\* after exactly ceil(256/rgb_step)^3 cells.
C29_DemoLoopsInRange == []RenderInRange /\ (LoopRequested => <>RenderReturned)

\* a background gradient with step 128 has returned after its 8 cells, the
\* last one (128, 128, 128)
C29_Witness ==
    /\ RenderReturned
    /\ request.op = "render_rgb_gradient" /\ ~request.is_foreground
    /\ request.rgb_step = 128 /\ request.terminal = Return(80)
    /\ demo.count = 8
    /\ demo.red_value = 128 /\ demo.green_value = 128 /\ demo.blue_value = 128

\* the foreground palette has returned after index 255
C29_WitnessPalette ==
    /\ RenderReturned
    /\ request.op = "render_256_palette" /\ request.is_foreground
    /\ demo.color_index = 255 /\ demo.count = 256
    /\ request.terminal = Return(80)
    /\ stdout[Len(stdout) - 1] = PyStr(<<ESC, "[", "3", "8", ";", "5", ";", "2", "5", "5", "m",
                                         "2", "5", "5", ESC, "[", "0", "m", " ">>)
    /\ stdout[Len(stdout)] = PyStr(<<"\n">>)

====
